---- MODULE Spec2Model ----
(***************************************************************************)
(* Model of repo-manager's scan engine (services/repository_service.rs,   *)
(* adapters/*.rs), its cache store (cache/cache_service.rs,               *)
(* cache/models.rs) and the Tauri commands that drive them                *)
(* (commands/repository_commands.rs).                                     *)
(*                                                                         *)
(* A file or directory name is a sequence of one-character strings, so    *)
(* that starts_with, to_lowercase and the byte-wise string order are      *)
(* computed, not tabulated.  A path is the sequence of its components     *)
(* below "/".                                                              *)
(***************************************************************************)
EXTENDS Integers, Sequences, FiniteSets, TLC

None == "None"

(* ------------------------------------------------------------------ *)
(* Characters and names                                                *)
(* ------------------------------------------------------------------ *)

AsciiTable ==
    << " ", "!", "\"", "#", "$", "%", "&", "'", "(", ")", "*", "+", ",", "-", ".", "/",
       "0", "1", "2", "3", "4", "5", "6", "7", "8", "9", ":", ";", "<", "=", ">", "?",
       "@", "A", "B", "C", "D", "E", "F", "G", "H", "I", "J", "K", "L", "M", "N", "O",
       "P", "Q", "R", "S", "T", "U", "V", "W", "X", "Y", "Z", "[", "\\", "]", "^", "_",
       "GRAVE", "a", "b", "c", "d", "e", "f", "g", "h", "i", "j", "k", "l", "m", "n", "o",
       "p", "q", "r", "s", "t", "u", "v", "w", "x", "y", "z", "{", "|", "}", "~" >>

\* byte value of a printable ASCII character (0x60 is spelled "GRAVE")
AsciiCodes ==
    [c \in {AsciiTable[i] : i \in 1..Len(AsciiTable)} |->
        31 + (CHOOSE i \in 1..Len(AsciiTable) : AsciiTable[i] = c)]

Ascii(c) == AsciiCodes[c]

\* char::to_lowercase restricted to ASCII
LowerChar(c) == IF Ascii(c) >= 65 /\ Ascii(c) <= 90 THEN AsciiTable[Ascii(c) + 32 - 31] ELSE c

\* str::to_lowercase
to_lowercase(s) == [i \in 1..Len(s) |-> LowerChar(s[i])]

\* str::starts_with(char)
starts_with(s, c) == Len(s) > 0 /\ s[1] = c

n_work == <<"w", "o", "r", "k">>
n_a == <<"a">>
n_b == <<"b">>
n_x == <<"x">>
n_y == <<"y">>
n_z == <<"z">>
n_node_modules == <<"n", "o", "d", "e", "_", "m", "o", "d", "u", "l", "e", "s">>
n_pkg == <<"p", "k", "g">>
n_Build == <<"B", "u", "i", "l", "d">>
n_notes == <<"n", "o", "t", "e", "s", ".", "t", "x", "t">>
n_unknown == <<"u", "n", "k", "n", "o", "w", "n">>
n_README == <<"R", "E", "A", "D", "M", "E", ".", "m", "d">>
n_package_json == <<"p", "a", "c", "k", "a", "g", "e", ".", "j", "s", "o", "n">>
n_origin == <<"o", "r", "i", "g", "i", "n">>
url_origin == <<"g", "i", "t", "@", "h", ":", "a">>
n_main == <<"m", "a", "i", "n">>

(* ------------------------------------------------------------------ *)
(* Paths                                                               *)
(* ------------------------------------------------------------------ *)

\* Path::parent: None for "/"
parent(p) == IF Len(p) = 0 THEN None ELSE SubSeq(p, 1, Len(p) - 1)

\* Path::file_name
file_name(p) == IF Len(p) = 0 THEN None ELSE p[Len(p)]

IsPrefix(p, q) == Len(p) <= Len(q) /\ SubSeq(q, 1, Len(p)) = p

(* ------------------------------------------------------------------ *)
(* The directory tree the scans run over                               *)
(* ------------------------------------------------------------------ *)

p_work == <<n_work>>
p_a == <<n_work, n_a>>
p_ax == <<n_work, n_a, n_x>>
p_axy == <<n_work, n_a, n_x, n_y>>
p_axyz == <<n_work, n_a, n_x, n_y, n_z>>
p_b == <<n_work, n_b>>
p_nm == <<n_work, n_node_modules>>
p_nmpkg == <<n_work, n_node_modules, n_pkg>>
p_notes == <<n_work, n_notes>>
p_missing == <<n_unknown>>

\* every entry of the tree, in the order a depth-first walk meets them
TreeOrder == <<p_work, p_a, p_ax, p_axy, p_axyz, p_b, p_nm, p_nmpkg, p_notes>>

Entries == {TreeOrder[i] : i \in 1..Len(TreeOrder)}
Files == {p_notes}
Dirs == Entries \ Files

\* the roots a scan is started on: the top, a subtree, a deny-listed
\* directory and a path that does not exist
ScanRoots == {p_work, p_a, p_nm, p_missing}

\* What one directory holds: whether it opens as a repository, whether an
\* ignore rule of its parent hides it, the size (MiB) and the code lines
\* of the files directly in it, the names of those files, whether the
\* repository has staged, unstaged and untracked files, whether reading
\* its status fails, its remotes and whether listing them fails, the
\* branch HEAD names (None when HEAD cannot be resolved), and the
\* directory's modification time, a time stamp (None when its metadata
\* cannot be read).
DefaultProfile ==
    [git |-> FALSE, ignored |-> FALSE, size_mb |-> 1, code_lines |-> 0,
     files |-> {}, staged |-> FALSE, unstaged |-> FALSE, untracked |-> FALSE,
     status_fails |-> FALSE, remotes |-> <<>>, remotes_fail |-> FALSE,
     branch |-> None, mtime |-> "t1"]

ProfGitClean ==
    [DefaultProfile EXCEPT !.git = TRUE, !.code_lines = 50, !.branch = n_main,
                           !.remotes = <<[name |-> n_origin, url |-> url_origin]>>]
ProfGitDirty == [DefaultProfile EXCEPT !.git = TRUE, !.unstaged = TRUE, !.untracked = TRUE]
ProfGitUntracked == [DefaultProfile EXCEPT !.git = TRUE, !.untracked = TRUE]
ProfGitStaged == [DefaultProfile EXCEPT !.git = TRUE, !.staged = TRUE]
\* a repository with a modified file, a branch and a remote, on which
\* every adapter call that can fail does
ProfGitBroken ==
    [DefaultProfile EXCEPT !.git = TRUE, !.unstaged = TRUE, !.branch = n_main,
                           !.remotes = <<[name |-> n_origin, url |-> url_origin]>>,
                           !.status_fails = TRUE, !.remotes_fail = TRUE, !.mtime = None]
ProfFew == [DefaultProfile EXCEPT !.code_lines = 3]
ProfCode == [DefaultProfile EXCEPT !.code_lines = 12]
ProfMarker == [DefaultProfile EXCEPT !.files = {n_README}]
ProfPackage ==
    [DefaultProfile EXCEPT !.files = {n_package_json}, !.code_lines = 12, !.mtime = None]
ProfBig == [DefaultProfile EXCEPT !.size_mb = 20, !.code_lines = 500]
ProfIgnored == [DefaultProfile EXCEPT !.ignored = TRUE, !.code_lines = 12]

SpecialProfiles ==
    {ProfGitClean, ProfGitDirty, ProfGitUntracked, ProfGitStaged, ProfGitBroken,
     ProfFew, ProfCode, ProfMarker, ProfPackage, ProfBig, ProfIgnored}

\* at most MaxSpecial directories differ from the default profile
MaxSpecial == 2

SpecialSets == {S \in SUBSET Dirs : Cardinality(S) <= MaxSpecial}

\* the trees whose non-default directories are exactly those of S
Trees(S) ==
    {[d \in Dirs |-> IF d \in S THEN f[d] ELSE DefaultProfile] :
        f \in [S -> SpecialProfiles]}

(* ------------------------------------------------------------------ *)
(* Time                                                                *)
(* ------------------------------------------------------------------ *)

\* Utc::now() counts ticks; a second has TicksPerSec of them
TicksPerSec == 2

\* Utc::now().format("%Y%m%d_%H%M%S"): the time cut to whole seconds
format_seconds(now) == now \div TicksPerSec

(* ------------------------------------------------------------------ *)
(* cache/models.rs                                                     *)
(* ------------------------------------------------------------------ *)

CACHE_VERSION == "1.0.0"

\* a version tag written by some other release of the format
OTHER_VERSION == "0.9.0"

\* CachedRepository::new
CachedRepository_new(repository, git_head_sha, now) ==
    [repository |-> repository, cached_at |-> now, git_head_sha |-> git_head_sha,
     last_modified |-> None, is_stale |-> FALSE]

(* ------------------------------------------------------------------ *)
(* The cache file: serde_json                                          *)
(* ------------------------------------------------------------------ *)

\* what the primary file can hold when it is not a document this
\* program wrote: nothing, bytes that cannot be read as text, text that
\* is not a CacheData document
NoFile == [kind |-> "absent"]
Unreadable == [kind |-> "unreadable"]
Corrupt == [kind |-> "corrupt"]

\* DateTime<Utc> as an RFC 3339 string: whole seconds and the fraction
ts_to_json(t) == [secs |-> t \div TicksPerSec, frac |-> t % TicksPerSec]
ts_from_json(j) == j.secs * TicksPerSec + j.frac

\* Option<T>: None is written as null
opt_to_json(v) == IF v = None THEN "null" ELSE v
opt_from_json(j) == IF j = "null" THEN None ELSE j

\* a HashMap is written as a JSON object: a set of key/value members
map_to_json(m, Conv(_)) == {<<k, Conv(m[k])>> : k \in DOMAIN m}
map_from_json(obj, Conv(_)) ==
    [k \in {e[1] : e \in obj} |-> Conv((CHOOSE e \in obj : e[1] = k)[2])]

cached_repo_to_json(c) ==
    [repository |-> c.repository, cached_at |-> ts_to_json(c.cached_at),
     git_head_sha |-> opt_to_json(c.git_head_sha),
     last_modified |-> opt_to_json(c.last_modified), is_stale |-> c.is_stale]

cached_repo_from_json(j) ==
    [repository |-> j.repository, cached_at |-> ts_from_json(j.cached_at),
     git_head_sha |-> opt_from_json(j.git_head_sha),
     last_modified |-> opt_from_json(j.last_modified), is_stale |-> j.is_stale]

Same(x) == x

\* a serializer that writes timestamps to the second only
to_string_pretty_whole_seconds(d) ==
    [kind |-> "json", version |-> d.version,
     last_scan |-> [secs |-> d.last_scan \div TicksPerSec, frac |-> 0],
     scanned_paths |-> d.scanned_paths,
     repositories |-> map_to_json(d.repositories, cached_repo_to_json),
     checksums |-> map_to_json(d.checksums, Same),
     total_repos |-> d.total_repos, total_git_repos |-> d.total_git_repos,
     total_size_mb |-> d.total_size_mb]

\* serde_json::to_string_pretty(cache_data)
to_string_pretty(d) ==
    [kind |-> "json", version |-> d.version, last_scan |-> ts_to_json(d.last_scan),
     scanned_paths |-> d.scanned_paths,
     repositories |-> map_to_json(d.repositories, cached_repo_to_json),
     checksums |-> map_to_json(d.checksums, Same),
     total_repos |-> d.total_repos, total_git_repos |-> d.total_git_repos,
     total_size_mb |-> d.total_size_mb]

\* serde_json::from_str::<CacheData>(content): Ok(record) or Err
from_str(content) ==
    IF content.kind # "json" THEN [tag |-> "Err"]
    ELSE [tag |-> "Ok",
          value |-> [version |-> content.version,
                     last_scan |-> ts_from_json(content.last_scan),
                     scanned_paths |-> content.scanned_paths,
                     repositories |-> map_from_json(content.repositories, cached_repo_from_json),
                     checksums |-> map_from_json(content.checksums, Same),
                     total_repos |-> content.total_repos,
                     total_git_repos |-> content.total_git_repos,
                     total_size_mb |-> content.total_size_mb]]

(* ------------------------------------------------------------------ *)
(* CacheService                                                        *)
(* ------------------------------------------------------------------ *)

RECURSIVE SumSize(_)
SumSize(repos) == IF repos = <<>> THEN 0 ELSE Head(repos).size_mb + SumSize(Tail(repos))

\* CacheService::create_cache_data.  Collecting into the map keeps, for a
\* path that occurs twice, the later element.
create_cache_data(repos, scanned_paths, checksums, now) ==
    LET keys == {repos[i].path : i \in 1..Len(repos)}
        last(p) == CHOOSE i \in 1..Len(repos) :
                      /\ repos[i].path = p
                      /\ \A j \in 1..Len(repos) : repos[j].path = p => j <= i
        sha(p) == IF p \in DOMAIN checksums THEN checksums[p] ELSE None
    IN  [version |-> CACHE_VERSION,
         last_scan |-> now,
         scanned_paths |-> scanned_paths,
         repositories |-> [p \in keys |-> CachedRepository_new(repos[last(p)], sha(p), now)],
         checksums |-> checksums,
         total_repos |-> Len(repos),
         total_git_repos |-> Cardinality({i \in 1..Len(repos) : repos[i].is_git_repo}),
         total_size_mb |-> SumSize(repos)]

\* load_cache without the version test
load_cache_any_version(file) ==
    IF file = NoFile THEN [tag |-> "Ok", some |-> FALSE]
    ELSE IF file = Unreadable THEN [tag |-> "Err"]
    ELSE LET parsed == from_str(file)
         IN  IF parsed.tag = "Err" THEN [tag |-> "Err"]
             ELSE [tag |-> "Ok", some |-> TRUE, value |-> parsed.value]

\* load_cache with its version test the wrong way round
load_cache_other_version_only(file) ==
    IF file = NoFile THEN [tag |-> "Ok", some |-> FALSE]
    ELSE IF file = Unreadable THEN [tag |-> "Err"]
    ELSE LET parsed == from_str(file)
         IN  IF parsed.tag = "Err" THEN [tag |-> "Err"]
             ELSE IF parsed.value.version = CACHE_VERSION
                  THEN [tag |-> "Ok", some |-> FALSE]
                  ELSE [tag |-> "Ok", some |-> TRUE, value |-> parsed.value]

\* CacheService::load_cache on the primary file as it is
load_cache(file) ==
    IF file = NoFile THEN [tag |-> "Ok", some |-> FALSE]
    ELSE IF file = Unreadable THEN [tag |-> "Err"]
    ELSE LET parsed == from_str(file)
         IN  IF parsed.tag = "Err" THEN [tag |-> "Err"]
             ELSE IF parsed.value.version # CACHE_VERSION
                  THEN [tag |-> "Ok", some |-> FALSE]
                  ELSE [tag |-> "Ok", some |-> TRUE, value |-> parsed.value]

\* an extract_repositories that leaves out the first value it meets
extract_repositories_skips_one(d, order) ==
    [i \in 1..(Len(order) - 1) |-> d.repositories[order[i + 1]].repository]

\* CacheService::extract_repositories: the map's values, in the order the
\* map is iterated (order is an enumeration of its keys)
extract_repositories(d, order) == [i \in 1..Len(order) |-> d.repositories[order[i]].repository]

\* the enumerations of a finite set
Orders(S) ==
    {o \in [1..Cardinality(S) -> S] : \A i, j \in 1..Cardinality(S) : o[i] = o[j] => i = j}

\* a find_stale_repositories that takes an entry with no recorded head for
\* fresh
find_stale_repositories_trusts_no_sha(d, current, order1, order2) ==
    LET IsStale(path) ==
            IF path \in DOMAIN current
            THEN IF d.repositories[path].git_head_sha # None
                 THEN d.repositories[path].git_head_sha # current[path]
                 ELSE FALSE
            ELSE TRUE
        IsNew(path) == path \notin DOMAIN d.repositories
    IN  SelectSeq(order1, IsStale) \o SelectSeq(order2, IsNew)

\* find_stale_repositories without its second loop
find_stale_repositories_no_new(d, current, order1, order2) ==
    LET IsStale(path) ==
            IF path \in DOMAIN current
            THEN IF d.repositories[path].git_head_sha # None
                 THEN d.repositories[path].git_head_sha # current[path]
                 ELSE TRUE
            ELSE TRUE
    IN  SelectSeq(order1, IsStale)

\* CacheService::find_stale_repositories; order1 and order2 are the
\* orders in which the two maps are iterated
find_stale_repositories(d, current, order1, order2) ==
    LET IsStale(path) ==
            IF path \in DOMAIN current
            THEN IF d.repositories[path].git_head_sha # None
                 THEN d.repositories[path].git_head_sha # current[path]
                 ELSE TRUE
            ELSE TRUE
        IsNew(path) == path \notin DOMAIN d.repositories
    IN  SelectSeq(order1, IsStale) \o SelectSeq(order2, IsNew)

\* CacheService::create_historical_backup: copy the primary file to
\* history/repositories_<seconds>.json, replacing a file of that name
create_historical_backup(file, hist, now) ==
    LET backup_file == format_seconds(now)
    IN  {h \in hist : h.name # backup_file}
            \cup {[name |-> backup_file, mtime |-> now, content |-> file]}

\* cleanup_historical_files keeps this many files
max_files == 10

\* the pruning without files.reverse(): oldest first, so the newest go
FilesBeyondLimit_oldest_first(hist) ==
    {h \in hist : Cardinality({g \in hist : g.mtime < h.mtime}) >= max_files}

\* cleanup_historical_files: the files it tries to remove, those after the
\* first max_files in newest-first order
FilesBeyondLimit(hist) ==
    {h \in hist : Cardinality({g \in hist : g.mtime > h.mtime}) >= max_files}

(* ------------------------------------------------------------------ *)
(* State                                                               *)
(* ------------------------------------------------------------------ *)

VARIABLES
    attrs,          \* the tree: what the adapters report for each directory
    base_path,      \* scan_directory_with_progress: its base_path argument
    scan_pc,        \* where the scan is: idle, enumerating, classifying,
                    \* analyzing (a candidate, or the root), done
    walker,         \* the entries the walker has still to yield
    dirs_to_scan,   \* first pass: the candidates collected so far
    scanned_count,  \* second pass: candidates handed to the callback so far
    repositories,   \* the entities pushed so far; the result once done
    events,         \* the calls made to progress_callback, in order
    analyzed,       \* the analyze_directory calls that have returned
    prev_scan,      \* the root and the result of the scan made before this one
    primary,        \* content of <cache_dir>/repositories.json
    history,        \* the files of <cache_dir>/history: name, mtime, content
    clock,          \* Utc::now(), in ticks
    saves,          \* save_cache calls made so far
    faults,         \* file-system operations that have failed so far
    last_save,      \* the last save_cache call: its record and how it went
    last_load,      \* what load_cache returned, if called since the last save
    stale_in,       \* find_stale_repositories: its arguments
    stale_out,      \* find_stale_repositories: the list it returned
    proc,           \* per request: the command it runs, where it is, its locals
    lock,           \* REPO_SERVICE's mutex: the request holding it, or 0
    calls           \* commands invoked so far

scanVars ==
    <<attrs, base_path, scan_pc, walker, dirs_to_scan, scanned_count, repositories, events,
      analyzed, prev_scan>>

cacheVars == <<primary, history, clock, saves, faults, last_save, last_load>>

staleVars == <<stale_in, stale_out>>

cmdVars == <<proc, lock, calls>>

vars == <<scanVars, cacheVars, staleVars, cmdVars>>

NoCall == [op |-> "none"]

\* the parts of the state a specification does not use stay as they start
ScanUnused ==
    /\ attrs = [d \in Dirs |-> DefaultProfile]
    /\ base_path = None
    /\ scan_pc = "idle"
    /\ walker = <<>>
    /\ dirs_to_scan = <<>>
    /\ scanned_count = 0
    /\ repositories = <<>>
    /\ events = <<>>
    /\ analyzed = 0
    /\ prev_scan = NoCall

CacheUnused ==
    /\ primary = NoFile
    /\ history = {}
    /\ clock = 0
    /\ saves = 0
    /\ faults = 0
    /\ last_save = NoCall
    /\ last_load = NoCall

StaleUnused ==
    /\ stale_in = NoCall
    /\ stale_out = NoCall

\* requests the runtime serves at once
NumProcs == 2

Procs == 1..NumProcs

\* a request slot with no command running
IdleSlot ==
    [cmd |-> "idle", pc |-> "idle", directory_path |-> None, add_mode |-> NoCall,
     result |-> <<>>, cache_data |-> NoCall, existing |-> NoCall,
     save_result |-> None, ret |-> NoCall]

\* command cmd about to hand ret to its caller, its other locals dropped
Returning(cmd, ret) == [IdleSlot EXCEPT !.cmd = cmd, !.pc = "return", !.ret = ret]

CmdUnused ==
    /\ proc = [p \in Procs |-> IdleSlot]
    /\ lock = 0
    /\ calls = 0

(* ------------------------------------------------------------------ *)
(* Adapters                                                            *)
(* ------------------------------------------------------------------ *)

\* GitAdapter::is_git_repository: the path opens as a repository
is_git_repository(t, p) == p \in Dirs /\ t[p].git

\* FilesystemAdapter::is_directory
is_directory(p) == p \in Dirs

skip_dirs ==
    { <<"n", "o", "d", "e", "_", "m", "o", "d", "u", "l", "e", "s">>,
      <<"v", "e", "n", "d", "o", "r">>,
      <<"t", "a", "r", "g", "e", "t">>,
      <<"d", "i", "s", "t">>,
      <<"b", "u", "i", "l", "d">>,
      <<"o", "u", "t">>,
      <<"s", "r", "c">>,
      <<"l", "i", "b">>,
      <<"l", "i", "b", "s">>,
      <<"c", "o", "m", "p", "o", "n", "e", "n", "t", "s">>,
      <<"u", "t", "i", "l", "s">>,
      <<"h", "e", "l", "p", "e", "r", "s">>,
      <<"t", "e", "s", "t", "s">>,
      <<"t", "e", "s", "t">>,
      <<"_", "_", "t", "e", "s", "t", "s", "_", "_">>,
      <<"s", "p", "e", "c">>,
      <<"s", "p", "e", "c", "s">>,
      <<"c", "a", "c", "h", "e">>,
      <<".", "c", "a", "c", "h", "e">>,
      <<"t", "m", "p">>,
      <<"t", "e", "m", "p">>,
      <<"l", "o", "g", "s">>,
      <<"S", "y", "s", "t", "e", "m", " ", "V", "o", "l", "u", "m", "e", " ", "I", "n", "f", "o", "r", "m", "a", "t", "i", "o", "n">>,
      <<"$", "R", "E", "C", "Y", "C", "L", "E", ".", "B", "I", "N">>,
      <<"T", "h", "u", "m", "b", "s", ".", "d", "b">>,
      <<".", "T", "r", "a", "s", "h">>,
      <<".", "D", "S", "_", "S", "t", "o", "r", "e">> }

\* skip.to_lowercase() for every entry of skip_dirs
skip_dirs_lower == {to_lowercase(skip) : skip \in skip_dirs}

\* IgnoreAdapter::should_skip_directory
should_skip_directory(p) ==
    LET dir_name == IF file_name(p) = None THEN <<>> ELSE file_name(p)
        dir_name_lower == to_lowercase(dir_name)
    IN  \/ starts_with(dir_name, ".")
        \/ starts_with(dir_name, "@")
        \/ dir_name_lower \in skip_dirs_lower

project_files ==
    { <<"p", "a", "c", "k", "a", "g", "e", ".", "j", "s", "o", "n">>,
      <<"C", "a", "r", "g", "o", ".", "t", "o", "m", "l">>,
      <<"p", "y", "p", "r", "o", "j", "e", "c", "t", ".", "t", "o", "m", "l">>,
      <<"p", "o", "m", ".", "x", "m", "l">>,
      <<"g", "o", ".", "m", "o", "d">>,
      <<"M", "a", "k", "e", "f", "i", "l", "e">>,
      <<"D", "o", "c", "k", "e", "r", "f", "i", "l", "e">>,
      <<"R", "E", "A", "D", "M", "E", ".", "m", "d">> }

\* FilesystemAdapter::file_exists
file_exists(t, p, filename) == p \in Dirs /\ filename \in t[p].files

\* FilesystemAdapter::has_project_indicators
has_project_indicators(t, p) == \E file \in project_files : file_exists(t, p, file)

\* the directories directly in p
Children(p) == {d \in Dirs : Len(d) = Len(p) + 1 /\ IsPrefix(p, d)}

RECURSIVE SumOf(_, _, _)
\* the sum of field f of the tree over the directories of S
SumOf(t, f, S) ==
    IF S = {} THEN 0
    ELSE LET d == CHOOSE d \in S : TRUE
         IN  t[d][f] + SumOf(t, f, S \ {d})

\* FilesystemAdapter::calculate_directory_size: WalkDir to depth 2, that
\* is the files of the directory and of the directories directly in it
calculate_directory_size(t, p) == t[p].size_mb + SumOf(t, "size_mb", Children(p))

\* the files whose presence makes analyze_languages answer at once
quick_project_files ==
    { <<"p", "a", "c", "k", "a", "g", "e", ".", "j", "s", "o", "n">>,
      <<"C", "a", "r", "g", "o", ".", "t", "o", "m", "l">>,
      <<"p", "y", "p", "r", "o", "j", "e", "c", "t", ".", "t", "o", "m", "l">>,
      <<"g", "o", ".", "m", "o", "d">>,
      <<"G", "e", "m", "f", "i", "l", "e">>,
      <<"p", "o", "m", ".", "x", "m", "l">> }

\* the directory names of exclude_patterns in analyze_languages
exclude_patterns ==
    { <<"n", "o", "d", "e", "_", "m", "o", "d", "u", "l", "e", "s">>,
      <<".", "g", "i", "t">>,
      <<"t", "a", "r", "g", "e", "t">>,
      <<"d", "i", "s", "t">>,
      <<"b", "u", "i", "l", "d">>,
      <<".", "n", "e", "x", "t">>,
      <<"v", "e", "n", "d", "o", "r">>,
      <<"v", "e", "n", "v">>,
      <<".", "v", "e", "n", "v">>,
      <<"e", "n", "v">>,
      <<"_", "_", "p", "y", "c", "a", "c", "h", "e", "_", "_">>,
      <<"c", "o", "v", "e", "r", "a", "g", "e">>,
      <<".", "c", "a", "c", "h", "e">>,
      <<"t", "m", "p">> }

\* TokeiAdapter::estimate_directory_size, in bytes: the entries directly
\* in the directory
estimate_directory_size(t, p) == t[p].size_mb * 1048576

\* the directories whose files languages.get_statistics counts from p: not
\* under a directory named in exclude_patterns, not hidden by an ignore rule
Counted(t, p) ==
    {d \in Dirs : /\ IsPrefix(p, d)
                  /\ \A i \in 1..Len(d) : d[i] \notin exclude_patterns
                  /\ \A q \in Dirs : (IsPrefix(p, q) /\ q # p /\ IsPrefix(q, d))
                                          => ~t[q].ignored}

\* TokeiAdapter::analyze_languages: the code_lines it returns
analyze_languages(t, p) ==
    IF t[p].files \cap quick_project_files # {} THEN 0
    ELSE IF estimate_directory_size(t, p) > 5000000 THEN 0
    ELSE IF Cardinality(Children(p)) >= 8 THEN 0
    ELSE SumOf(t, "code_lines", Counted(t, p))

\* GitAdapter::get_status: which of its lists are not empty, and is_clean
get_status(t, p) ==
    IF t[p].status_fails THEN [tag |-> "Err"]
    ELSE [tag |-> "Ok",
          value |-> [is_clean |-> ~t[p].staged /\ ~t[p].unstaged /\ ~t[p].untracked,
                     staged_files |-> t[p].staged,
                     unstaged_files |-> t[p].unstaged,
                     untracked_files |-> t[p].untracked,
                     current_branch |-> t[p].branch]]

\* GitAdapter::get_remotes
get_remotes(t, p) ==
    IF t[p].remotes_fail THEN [tag |-> "Err"] ELSE [tag |-> "Ok", value |-> t[p].remotes]

\* FilesystemAdapter::get_last_activity: Ok(None) when the metadata or the
\* modification time cannot be read
get_last_activity(t, p) == t[p].mtime

\* format!("{}: {}", r.name, r.url)
format_remote(r) == r.name \o <<":", " ">> \o r.url

\* the walker's depth cap in scan_directory_with_progress
WalkDepth == 3

\* an entry below base that an ignore rule removes, with all beneath it
IsIgnored(t, base, e) ==
    \E q \in Dirs : /\ IsPrefix(base, q) /\ q # base /\ IsPrefix(q, e)
                    /\ t[q].ignored

\* IgnoreAdapter::create_walker: the items of the walk, in order.  A base
\* that does not exist yields one error item.
create_walker(t, base, max_depth) ==
    IF base \notin Entries THEN <<[ok |-> FALSE, path |-> base]>>
    ELSE LET Yielded(e) == /\ IsPrefix(base, e)
                           /\ Len(e) - Len(base) <= max_depth
                           /\ ~IsIgnored(t, base, e)
             order == SelectSeq(TreeOrder, Yielded)
         IN  [i \in 1..Len(order) |-> [ok |-> TRUE, path |-> order[i]]]

(* ------------------------------------------------------------------ *)
(* RepositoryService                                                   *)
(* ------------------------------------------------------------------ *)

RECURSIVE InsideFrom(_, _, _)
\* the loop of is_inside_git_repo, from the ancestor current upwards
InsideFrom(t, current, base) ==
    IF current = None THEN FALSE
    ELSE IF current = base THEN FALSE
    ELSE IF is_git_repository(t, current) THEN TRUE
    ELSE InsideFrom(t, parent(current), base)

\* is_inside_git_repo looking at the immediate parent only
is_inside_git_repo_parent_only(t, p, base) ==
    parent(p) # None /\ parent(p) # base /\ is_git_repository(t, parent(p))

\* RepositoryService::is_inside_git_repo
is_inside_git_repo(t, p, base) == InsideFrom(t, parent(p), base)

\* analyze_directory giving a directory without a repository the status Clean
analyze_directory_nogit_clean(t, p) ==
    LET name == IF file_name(p) = None THEN n_unknown ELSE file_name(p)
        size_mb == calculate_directory_size(t, p)
        git == is_git_repository(t, p)
        code_lines == IF size_mb > 10 /\ ~git THEN 0 ELSE analyze_languages(t, p)
        git_status == get_status(t, p)
        remote_info == IF get_remotes(t, p).tag = "Ok" THEN get_remotes(t, p).value ELSE <<>>
        remotes == [i \in 1..Len(remote_info) |-> format_remote(remote_info[i])]
        current_branch == IF git_status.tag = "Ok" THEN git_status.value.current_branch
                          ELSE None
        last_activity == get_last_activity(t, p)
        has_uncommitted_changes ==
            IF git_status.tag = "Ok" THEN ~git_status.value.is_clean ELSE FALSE
        status == IF has_uncommitted_changes
                  THEN IF git_status.tag = "Ok"
                          /\ (git_status.value.unstaged_files
                                 \/ git_status.value.staged_files)
                       THEN "Dirty" ELSE "Untracked"
                  ELSE "Clean"
    IN  IF git
        THEN [name |-> name, path |-> p, is_git_repo |-> TRUE,
              has_uncommitted_changes |-> has_uncommitted_changes,
              current_branch |-> current_branch,
              remotes |-> remotes, last_activity |-> last_activity,
              status |-> status, size_mb |-> size_mb, code_lines |-> code_lines]
        ELSE [name |-> name, path |-> p, is_git_repo |-> FALSE,
              has_uncommitted_changes |-> FALSE,
              current_branch |-> None,
              remotes |-> <<>>, last_activity |-> last_activity,
              status |-> "Clean", size_mb |-> size_mb, code_lines |-> code_lines]

\* analyze_directory calling every repository with uncommitted changes Dirty
analyze_directory_untracked_dirty(t, p) ==
    LET name == IF file_name(p) = None THEN n_unknown ELSE file_name(p)
        size_mb == calculate_directory_size(t, p)
        git == is_git_repository(t, p)
        code_lines == IF size_mb > 10 /\ ~git THEN 0 ELSE analyze_languages(t, p)
        git_status == get_status(t, p)
        remote_info == IF get_remotes(t, p).tag = "Ok" THEN get_remotes(t, p).value ELSE <<>>
        remotes == [i \in 1..Len(remote_info) |-> format_remote(remote_info[i])]
        current_branch == IF git_status.tag = "Ok" THEN git_status.value.current_branch
                          ELSE None
        last_activity == get_last_activity(t, p)
        has_uncommitted_changes ==
            IF git_status.tag = "Ok" THEN ~git_status.value.is_clean ELSE FALSE
        status == IF has_uncommitted_changes
                  THEN "Dirty"
                  ELSE "Clean"
    IN  IF git
        THEN [name |-> name, path |-> p, is_git_repo |-> TRUE,
              has_uncommitted_changes |-> has_uncommitted_changes,
              current_branch |-> current_branch,
              remotes |-> remotes, last_activity |-> last_activity,
              status |-> status, size_mb |-> size_mb, code_lines |-> code_lines]
        ELSE [name |-> name, path |-> p, is_git_repo |-> FALSE,
              has_uncommitted_changes |-> FALSE,
              current_branch |-> None,
              remotes |-> <<>>, last_activity |-> last_activity,
              status |-> "NoGit", size_mb |-> size_mb, code_lines |-> code_lines]

\* RepositoryService::analyze_directory
analyze_directory(t, p) ==
    LET name == IF file_name(p) = None THEN n_unknown ELSE file_name(p)
        size_mb == calculate_directory_size(t, p)
        git == is_git_repository(t, p)
        code_lines == IF size_mb > 10 /\ ~git THEN 0 ELSE analyze_languages(t, p)
        git_status == get_status(t, p)
        remote_info == IF get_remotes(t, p).tag = "Ok" THEN get_remotes(t, p).value ELSE <<>>
        remotes == [i \in 1..Len(remote_info) |-> format_remote(remote_info[i])]
        current_branch == IF git_status.tag = "Ok" THEN git_status.value.current_branch
                          ELSE None
        last_activity == get_last_activity(t, p)
        has_uncommitted_changes ==
            IF git_status.tag = "Ok" THEN ~git_status.value.is_clean ELSE FALSE
        status == IF has_uncommitted_changes
                  THEN IF git_status.tag = "Ok"
                          /\ (git_status.value.unstaged_files
                                 \/ git_status.value.staged_files)
                       THEN "Dirty" ELSE "Untracked"
                  ELSE "Clean"
    IN  IF git
        THEN [name |-> name, path |-> p, is_git_repo |-> TRUE,
              has_uncommitted_changes |-> has_uncommitted_changes,
              current_branch |-> current_branch,
              remotes |-> remotes, last_activity |-> last_activity,
              status |-> status, size_mb |-> size_mb, code_lines |-> code_lines]
        ELSE [name |-> name, path |-> p, is_git_repo |-> FALSE,
              has_uncommitted_changes |-> FALSE,
              current_branch |-> None,
              remotes |-> <<>>, last_activity |-> last_activity,
              status |-> "NoGit", size_mb |-> size_mb, code_lines |-> code_lines]

\* a first pass that leaves the scan root out
IsCandidate_skips_root(t, base, item) ==
    /\ item.ok
    /\ is_directory(item.path)
    /\ item.path # base
    /\ ~is_inside_git_repo(t, item.path, base)
    /\ ~should_skip_directory(item.path)

\* first pass of scan_directory_with_progress: does the walker item become
\* a candidate
IsCandidate(t, base, item) ==
    /\ item.ok
    /\ is_directory(item.path)
    /\ ~(item.path # base /\ is_inside_git_repo(t, item.path, base))
    /\ ~should_skip_directory(item.path)

\* a relevance test that does not look for marker files
IsDropped_ignores_markers(t, repo, dir_path) ==
    ~repo.is_git_repo /\ repo.code_lines < 10

\* second pass: the relevance test applied to a classified candidate
IsDropped(t, repo, dir_path) ==
    ~repo.is_git_repo /\ repo.code_lines < 10 /\ ~has_project_indicators(t, dir_path)

RECURSIVE StrLeq(_, _)
\* str::cmp(a, b) # Greater: byte-wise lexicographic order
StrLeq(a, b) ==
    IF Len(a) = 0 THEN TRUE
    ELSE IF Len(b) = 0 THEN FALSE
    ELSE IF Ascii(a[1]) < Ascii(b[1]) THEN TRUE
    ELSE IF Ascii(a[1]) > Ascii(b[1]) THEN FALSE
    ELSE StrLeq(Tail(a), Tail(b))

\* one insertion of a stable sort: x goes after every element not above it
InsertByName(sorted, x) ==
    LET k == Cardinality({i \in 1..Len(sorted) : StrLeq(sorted[i].name, x.name)})
    IN  SubSeq(sorted, 1, k) \o <<x>> \o SubSeq(sorted, k + 1, Len(sorted))

RECURSIVE SortFrom(_, _)
SortFrom(done, rest) ==
    IF rest = <<>> THEN done ELSE SortFrom(InsertByName(done, Head(rest)), Tail(rest))

\* a sort that leaves the classification order
sort_by_name_unsorted(repos) == repos

\* repositories.sort_by(|a, b| a.name.cmp(&b.name)): stable, by name
sort_by_name(repos) == SortFrom(<<>>, repos)

RECURSIVE ClassifyAll(_, _)
ClassifyAll(t, dirs) ==
    IF dirs = <<>> THEN <<>>
    ELSE LET repo == analyze_directory(t, Head(dirs))
         IN  (IF IsDropped(t, repo, Head(dirs)) THEN <<>> ELSE <<repo>>)
                 \o ClassifyAll(t, Tail(dirs))

\* RepositoryService::scan_directory_with_progress, as a function of the tree
scan_directory_with_progress(t, base) ==
    IF is_git_repository(t, base) THEN <<analyze_directory(t, base)>>
    ELSE LET items == create_walker(t, base, WalkDepth)
             cands == SelectSeq(items, LAMBDA item : IsCandidate(t, base, item))
             dirs == [i \in 1..Len(cands) |-> cands[i].path]
         IN  sort_by_name(ClassifyAll(t, dirs))

(* ------------------------------------------------------------------ *)
(* The scan, step by step                                              *)
(* ------------------------------------------------------------------ *)

InitScan ==
    /\ \E S \in SpecialSets : attrs \in Trees(S)
    /\ base_path = None
    /\ scan_pc = "idle"
    /\ walker = <<>>
    /\ dirs_to_scan = <<>>
    /\ scanned_count = 0
    /\ repositories = <<>>
    /\ events = <<>>
    /\ analyzed = 0
    /\ prev_scan = NoCall
    /\ CacheUnused
    /\ StaleUnused
    /\ CmdUnused

\* entry of scan_directory_with_progress on a repository root: the call
\* has its own empty repositories and the callback is told (base_path, 1, 1)
ScanRootIsRepo(b) ==
    /\ scan_pc = "idle"
    /\ is_git_repository(attrs, b)
    /\ base_path' = b
    /\ repositories' = <<>>
    /\ walker' = <<>>
    /\ dirs_to_scan' = <<>>
    /\ scanned_count' = 0
    /\ analyzed' = 0
    /\ events' = <<[current_dir |-> b, count |-> 1, total |-> 1]>>
    /\ scan_pc' = "analyzing_root"
    /\ UNCHANGED attrs
    /\ UNCHANGED <<prev_scan, cacheVars, staleVars, cmdVars>>

\* the root is classified and returned alone
AnalyzeRoot ==
    /\ scan_pc = "analyzing_root"
    /\ repositories' = <<analyze_directory(attrs, base_path)>>
    /\ analyzed' = analyzed + 1
    /\ scan_pc' = "done"
    /\ UNCHANGED <<attrs, base_path, walker, dirs_to_scan, scanned_count, events>>
    /\ UNCHANGED <<prev_scan, cacheVars, staleVars, cmdVars>>

\* an entry that walks the tree whether or not the root is a repository
ScanBegin_any_root(b) ==
    /\ scan_pc = "idle"
    /\ base_path' = b
    /\ repositories' = <<>>
    /\ walker' = create_walker(attrs, b, WalkDepth)
    /\ dirs_to_scan' = <<>>
    /\ scanned_count' = 0
    /\ analyzed' = 0
    /\ events' = <<>>
    /\ scan_pc' = "enumerating"
    /\ UNCHANGED attrs
    /\ UNCHANGED <<prev_scan, cacheVars, staleVars, cmdVars>>

\* an entry that goes on with the list the call before it left
ScanBegin_keeps_repositories(b) ==
    /\ scan_pc = "idle"
    /\ ~is_git_repository(attrs, b)
    /\ base_path' = b
    /\ walker' = create_walker(attrs, b, WalkDepth)
    /\ dirs_to_scan' = <<>>
    /\ scanned_count' = 0
    /\ analyzed' = 0
    /\ events' = <<>>
    /\ scan_pc' = "enumerating"
    /\ UNCHANGED <<attrs, repositories>>
    /\ UNCHANGED <<prev_scan, cacheVars, staleVars, cmdVars>>

\* entry on any other root: empty repositories and dirs_to_scan, and the
\* walker is built
ScanBegin(b) ==
    /\ scan_pc = "idle"
    /\ ~is_git_repository(attrs, b)
    /\ base_path' = b
    /\ repositories' = <<>>
    /\ walker' = create_walker(attrs, b, WalkDepth)
    /\ dirs_to_scan' = <<>>
    /\ scanned_count' = 0
    /\ analyzed' = 0
    /\ events' = <<>>
    /\ scan_pc' = "enumerating"
    /\ UNCHANGED attrs
    /\ UNCHANGED <<prev_scan, cacheVars, staleVars, cmdVars>>

\* a first pass that pushes every candidate twice
EnumStep_pushes_twice ==
    /\ scan_pc = "enumerating"
    /\ walker # <<>>
    /\ walker' = Tail(walker)
    /\ dirs_to_scan' = IF IsCandidate(attrs, base_path, Head(walker))
                       THEN dirs_to_scan \o <<Head(walker).path, Head(walker).path>>
                       ELSE dirs_to_scan
    /\ UNCHANGED <<attrs, base_path, scan_pc, scanned_count, repositories, events, analyzed>>
    /\ UNCHANGED <<prev_scan, cacheVars, staleVars, cmdVars>>

\* first pass, one walker item
EnumStep ==
    /\ scan_pc = "enumerating"
    /\ walker # <<>>
    /\ walker' = Tail(walker)
    /\ dirs_to_scan' = IF IsCandidate(attrs, base_path, Head(walker))
                       THEN Append(dirs_to_scan, Head(walker).path)
                       ELSE dirs_to_scan
    /\ UNCHANGED <<attrs, base_path, scan_pc, scanned_count, repositories, events, analyzed>>
    /\ UNCHANGED <<prev_scan, cacheVars, staleVars, cmdVars>>

\* the walker is exhausted: total_count is fixed
EnumDone ==
    /\ scan_pc = "enumerating"
    /\ walker = <<>>
    /\ scan_pc' = "classifying"
    /\ UNCHANGED <<attrs, base_path, walker, dirs_to_scan, scanned_count, repositories,
                   events, analyzed>>
    /\ UNCHANGED <<prev_scan, cacheVars, staleVars, cmdVars>>

\* a callback told the count as it was before the increment
ProgressStep_count_before_increment ==
    /\ scan_pc = "classifying"
    /\ scanned_count < Len(dirs_to_scan)
    /\ scanned_count' = scanned_count + 1
    /\ events' = Append(events, [current_dir |-> dirs_to_scan[scanned_count + 1],
                                 count |-> scanned_count,
                                 total |-> Len(dirs_to_scan)])
    /\ scan_pc' = "analyzing"
    /\ UNCHANGED <<attrs, base_path, walker, dirs_to_scan, repositories, analyzed>>
    /\ UNCHANGED <<prev_scan, cacheVars, staleVars, cmdVars>>

\* a callback told how many candidates are left instead of the total
ProgressStep_reports_remaining ==
    /\ scan_pc = "classifying"
    /\ scanned_count < Len(dirs_to_scan)
    /\ scanned_count' = scanned_count + 1
    /\ events' = Append(events, [current_dir |-> dirs_to_scan[scanned_count + 1],
                                 count |-> scanned_count + 1,
                                 total |-> Len(dirs_to_scan) - scanned_count])
    /\ scan_pc' = "analyzing"
    /\ UNCHANGED <<attrs, base_path, walker, dirs_to_scan, repositories, analyzed>>
    /\ UNCHANGED <<prev_scan, cacheVars, staleVars, cmdVars>>

\* second pass, the next candidate: scanned_count += 1 and the callback
ProgressStep ==
    /\ scan_pc = "classifying"
    /\ scanned_count < Len(dirs_to_scan)
    /\ scanned_count' = scanned_count + 1
    /\ events' = Append(events, [current_dir |-> dirs_to_scan[scanned_count + 1],
                                 count |-> scanned_count + 1,
                                 total |-> Len(dirs_to_scan)])
    /\ scan_pc' = "analyzing"
    /\ UNCHANGED <<attrs, base_path, walker, dirs_to_scan, repositories, analyzed>>
    /\ UNCHANGED <<prev_scan, cacheVars, staleVars, cmdVars>>

\* a second pass that gives up at a candidate whose status cannot be read
ClassifyStep_stops_on_failure ==
    /\ scan_pc = "analyzing"
    /\ LET dir_path == dirs_to_scan[scanned_count]
           repo == analyze_directory(attrs, dir_path)
           failed == attrs[dir_path].git /\ get_status(attrs, dir_path).tag = "Err"
       IN  /\ repositories' = IF IsDropped(attrs, repo, dir_path) \/ failed
                               THEN repositories
                               ELSE Append(repositories, repo)
           /\ scan_pc' = IF failed THEN "done" ELSE "classifying"
    /\ analyzed' = analyzed + 1
    /\ UNCHANGED <<attrs, base_path, walker, dirs_to_scan, scanned_count, events>>
    /\ UNCHANGED <<prev_scan, cacheVars, staleVars, cmdVars>>

\* second pass, the same candidate: classify, keep or drop
ClassifyStep ==
    /\ scan_pc = "analyzing"
    /\ LET dir_path == dirs_to_scan[scanned_count]
           repo == analyze_directory(attrs, dir_path)
       IN  repositories' = IF IsDropped(attrs, repo, dir_path)
                           THEN repositories
                           ELSE Append(repositories, repo)
    /\ analyzed' = analyzed + 1
    /\ scan_pc' = "classifying"
    /\ UNCHANGED <<attrs, base_path, walker, dirs_to_scan, scanned_count, events>>
    /\ UNCHANGED <<prev_scan, cacheVars, staleVars, cmdVars>>

\* after the last candidate: sort and return
ScanFinish ==
    /\ scan_pc = "classifying"
    /\ scanned_count = Len(dirs_to_scan)
    /\ repositories' = sort_by_name(repositories)
    /\ scan_pc' = "done"
    /\ UNCHANGED <<attrs, base_path, walker, dirs_to_scan, scanned_count, events, analyzed>>
    /\ UNCHANGED <<prev_scan, cacheVars, staleVars, cmdVars>>

NextScan ==
    \/ \E b \in ScanRoots : ScanRootIsRepo(b)
    \/ AnalyzeRoot
    \/ \E b \in ScanRoots : ScanBegin(b)
    \/ EnumStep
    \/ EnumDone
    \/ ProgressStep
    \/ ClassifyStep
    \/ ScanFinish

SpecScan == InitScan /\ [][NextScan]_vars

(* ------------------------------------------------------------------ *)
(* Two scans, one after the other, over the same tree                  *)
(* ------------------------------------------------------------------ *)

\* the trees in which at most one directory differs from the default
RescanTrees == UNION {Trees(S) : S \in {T \in SpecialSets : Cardinality(T) <= 1}}

InitRescan ==
    /\ attrs \in RescanTrees
    /\ base_path = None
    /\ scan_pc = "idle"
    /\ walker = <<>>
    /\ dirs_to_scan = <<>>
    /\ scanned_count = 0
    /\ repositories = <<>>
    /\ events = <<>>
    /\ analyzed = 0
    /\ prev_scan = NoCall
    /\ CacheUnused
    /\ StaleUnused
    /\ CmdUnused

\* the first call has returned and the caller calls again: the service
\* holds nothing of the call but its adapters, the tree is as it was
ScanAgain ==
    /\ scan_pc = "done"
    /\ prev_scan = NoCall
    /\ prev_scan' = [op |-> "scan", base |-> base_path, result |-> repositories]
    /\ scan_pc' = "idle"
    /\ UNCHANGED <<attrs, base_path, walker, dirs_to_scan, scanned_count, repositories,
                   events, analyzed>>
    /\ UNCHANGED <<cacheVars, staleVars, cmdVars>>

NextRescan ==
    \/ NextScan
    \/ ScanAgain

SpecRescan == InitRescan /\ [][NextRescan]_vars

(* ------------------------------------------------------------------ *)
(* The cache service, call by call                                     *)
(* ------------------------------------------------------------------ *)

\* two states of the tree, as inputs to the records that are saved
TreeOne ==
    [d \in Dirs |-> IF d = p_a THEN ProfGitClean
                    ELSE IF d = p_b THEN ProfCode ELSE DefaultProfile]
TreeTwo ==
    [d \in Dirs |-> IF d = p_a THEN ProfGitDirty
                    ELSE IF d = p_nmpkg THEN ProfMarker ELSE DefaultProfile]

EmptyMap == [p \in {} |-> None]

\* the arguments create_cache_data is called with
SaveInputs ==
    {[repos |-> scan_directory_with_progress(TreeOne, p_work), scanned_paths |-> <<p_work>>,
      checksums |-> [p \in {p_a} |-> "sha1"]],
     [repos |-> scan_directory_with_progress(TreeTwo, p_work), scanned_paths |-> <<p_work>>,
      checksums |-> EmptyMap],
     [repos |-> <<>>, scanned_paths |-> <<>>, checksums |-> EmptyMap]}

\* a document left behind by another release
OldDocument ==
    [to_string_pretty(create_cache_data(
         scan_directory_with_progress(TreeOne, p_work), <<p_work>>, EmptyMap, 0))
        EXCEPT !.version = OTHER_VERSION]

\* save_cache calls per behaviour
MaxSaves == 3

\* file-system failures per behaviour
MaxFaults == 2

\* ticks that pass before a call: 1 can stay within the second
Advance == {1, 2}

InitCache ==
    /\ primary \in {NoFile, Unreadable, Corrupt, OldDocument}
    /\ history = {}
    /\ clock = 0
    /\ saves = 0
    /\ faults = 0
    /\ last_save = NoCall
    /\ last_load = NoCall
    /\ ScanUnused
    /\ StaleUnused
    /\ CmdUnused

\* the record of one save_cache call
SaveCall(rec, before, result, failed, pruned_from, not_removed) ==
    [op |-> "save", rec |-> rec, before |-> before, result |-> result,
     failed |-> failed, pruned_from |-> pruned_from, not_removed |-> not_removed]

\* a backup step that does not look whether the primary file exists
AfterBackup_unconditional(now) == create_historical_backup(primary, history, now)

\* the history once save_cache is past its backup step
AfterBackup(now) ==
    IF primary # NoFile THEN create_historical_backup(primary, history, now) ELSE history

\* save_cache: the backup copy fails and the error is returned
SaveBackupFails(rec, now) ==
    /\ primary # NoFile
    /\ faults < MaxFaults
    /\ faults' = faults + 1
    /\ UNCHANGED <<primary, history>>
    /\ last_save' = SaveCall(rec, primary, "Err", "backup", history, {})

\* save_cache: fs::write fails, before or after truncating the file
SaveWriteFails(rec, now) ==
    /\ faults < MaxFaults
    /\ faults' = faults + 1
    /\ primary' \in {primary, Corrupt}
    /\ history' = AfterBackup(now)
    /\ last_save' = SaveCall(rec, primary, "Err", "write", history', {})

\* save_cache: the record is written, then reading the history directory fails
SaveCleanupFails(rec, now) ==
    /\ faults < MaxFaults
    /\ faults' = faults + 1
    /\ primary' = to_string_pretty(rec)
    /\ history' = AfterBackup(now)
    /\ last_save' = SaveCall(rec, primary, "Err", "cleanup", history', {})

\* save_cache: the record is written and the history pruned; a removal
\* that fails is logged and the file stays
SaveCompletes(rec, now) ==
    /\ primary' = to_string_pretty(rec)
    /\ \E not_removed \in SUBSET FilesBeyondLimit(AfterBackup(now)) :
          /\ faults + Cardinality(not_removed) <= MaxFaults
          /\ faults' = faults + Cardinality(not_removed)
          /\ history' = AfterBackup(now) \ (FilesBeyondLimit(AfterBackup(now)) \ not_removed)
          /\ last_save' = SaveCall(rec, primary, "Ok", "none", AfterBackup(now), not_removed)

\* CacheService::save_cache on a record built by create_cache_data
SaveCache(inp, adv) ==
    LET now == clock + adv
        rec == create_cache_data(inp.repos, inp.scanned_paths, inp.checksums, now)
    IN  /\ clock' = now
        /\ saves' = saves + 1
        /\ last_load' = NoCall
        /\ \/ SaveBackupFails(rec, now)
           \/ SaveWriteFails(rec, now)
           \/ SaveCleanupFails(rec, now)
           \/ SaveCompletes(rec, now)
        /\ UNCHANGED <<scanVars, staleVars, cmdVars>>

\* CacheService::load_cache
LoadCache ==
    /\ last_load' = [op |-> "load", result |-> load_cache(primary)]
    /\ UNCHANGED <<primary, history, clock, saves, faults, last_save>>
    /\ UNCHANGED <<scanVars, staleVars, cmdVars>>

CacheSaveCall == saves < MaxSaves /\ \E inp \in SaveInputs, adv \in Advance : SaveCache(inp, adv)

NextCache ==
    \/ CacheSaveCall
    \/ LoadCache

SpecCache == InitCache /\ [][NextCache]_vars

(* ------------------------------------------------------------------ *)
(* Many saves in a row: the history directory                          *)
(* ------------------------------------------------------------------ *)

\* save_cache calls per behaviour, enough to pass max_files backups
MaxRetentionSaves == 12

InitRetention ==
    /\ CacheUnused
    /\ ScanUnused
    /\ StaleUnused
    /\ CmdUnused

\* here every save falls in a second of its own
RetentionSaveCall ==
    /\ saves < MaxRetentionSaves
    /\ \E adv \in {TicksPerSec} :
          SaveCache([repos |-> <<>>, scanned_paths |-> <<>>, checksums |-> EmptyMap], adv)

NextRetention == RetentionSaveCall

SpecRetention == InitRetention /\ [][NextRetention]_vars

(* ------------------------------------------------------------------ *)
(* find_stale_repositories on drawn arguments                          *)
(* ------------------------------------------------------------------ *)

StalePaths == {p_a, p_b, p_nmpkg}
Shas == {"sha1", "sha2"}

\* the maps from some of the paths to a checksum
ChecksumMaps == UNION {[S -> Shas] : S \in SUBSET StalePaths}

\* the repositories of the paths in S, as a list
ReposOf(S) ==
    LET order == SelectSeq(TreeOrder, LAMBDA p : p \in S)
    IN  [i \in 1..Len(order) |-> analyze_directory(TreeOne, order[i])]

InitStale ==
    /\ \E S \in SUBSET StalePaths, c \in ChecksumMaps, current \in ChecksumMaps :
          stale_in = [op |-> "args",
                      cache_data |-> create_cache_data(ReposOf(S), <<p_work>>, c, 1),
                      current_checksums |-> current]
    /\ stale_out = NoCall
    /\ ScanUnused
    /\ CacheUnused
    /\ CmdUnused

\* one call of find_stale_repositories; the two maps are iterated in
\* whatever order the hash maps give
FindStale ==
    /\ stale_in.op = "args"
    /\ stale_out = NoCall
    /\ \E order1 \in Orders(DOMAIN stale_in.cache_data.repositories),
          order2 \in Orders(DOMAIN stale_in.current_checksums) :
          stale_out' = [op |-> "returned",
                        list |-> find_stale_repositories(stale_in.cache_data,
                                     stale_in.current_checksums, order1, order2)]
    /\ UNCHANGED <<stale_in, scanVars, cacheVars, cmdVars>>

NextStale == FindStale

SpecStale == InitStale /\ [][NextStale]_vars

(* ------------------------------------------------------------------ *)
(* The Tauri commands, as concurrent requests                          *)
(* ------------------------------------------------------------------ *)

\* Option<bool>
NoneOpt == [some |-> FALSE]
Some(v) == [some |-> TRUE, value |-> v]

\* Option::unwrap_or
unwrap_or(o, default) == IF o.some THEN o.value ELSE default

\* scan_repositories: let is_add_mode = add_mode.unwrap_or(false)
is_add_mode_default_true(add_mode) == unwrap_or(add_mode, TRUE)

is_add_mode(add_mode) == unwrap_or(add_mode, FALSE)

\* commands invoked per behaviour
MaxCalls == 2

\* the states of the tree a scan can meet and the roots it is asked for
CmdTrees == {TreeOne, TreeTwo}
CmdRoots == {p_work, p_nm}

RECURSIVE MergeFrom(_, _, _)
\* scan_repositories, the loop over the new repositories in add mode
MergeFrom(merged_repos, existing_paths, repos) ==
    IF repos = <<>> THEN merged_repos
    ELSE LET new_repo == Head(repos)
         IN  IF new_repo.path \notin existing_paths
             THEN MergeFrom(Append(merged_repos, new_repo),
                            existing_paths \cup {new_repo.path}, Tail(repos))
             ELSE MergeFrom(merged_repos, existing_paths, Tail(repos))

\* the merge without its test for a path that is already there
merge_repositories_no_dedup(existing_repos, repos) == existing_repos \o repos

\* scan_repositories, add mode: existing repositories first, then the new
\* ones whose path is not there yet
merge_repositories(existing_repos, repos) ==
    MergeFrom(existing_repos, {existing_repos[i].path : i \in 1..Len(existing_repos)}, repos)

\* RepositoryService::get_directory_stats, the counts
directory_stats(repos) ==
    LET total_directories == Len(repos)
        git_repositories == Cardinality({i \in 1..Len(repos) : repos[i].is_git_repo})
    IN  [total_directories |-> total_directories,
         git_repositories |-> git_repositories,
         non_git_directories |-> total_directories - git_repositories,
         repositories_with_changes |->
             Cardinality({i \in 1..Len(repos) : repos[i].has_uncommitted_changes}),
         total_size_mb |-> SumSize(repos)]

Ok(v) == [tag |-> "Ok", value |-> v]
Err(e) == [tag |-> "Err", value |-> e]

InitCmd ==
    /\ primary \in {NoFile, Corrupt, OldDocument}
    /\ history = {}
    /\ clock = 0
    /\ saves = 0
    /\ faults = 0
    /\ last_save = NoCall
    /\ last_load = NoCall
    /\ CmdUnused
    /\ ScanUnused
    /\ StaleUnused

\* A command meets at most one failing operation, which ends it, so the
\* failures of a behaviour need no other bound than MaxCalls.
CmdFrame == UNCHANGED <<scanVars, staleVars, saves, last_save, last_load>>

\* a request is given the first slot with no command running: the slots
\* are interchangeable, only what runs in them matters
TakesSlot(p) ==
    /\ proc[p].cmd = "idle"
    /\ \A q \in Procs : proc[q].cmd = "idle" => p <= q

\* the values a caller can pass as add_mode
AddModes == {NoneOpt, Some(FALSE), Some(TRUE)}

\* a scan_repositories that goes to its scan without the mutex
InvokeScan_skips_lock(p) ==
    /\ TakesSlot(p)
    /\ calls < MaxCalls
    /\ proc' = [proc EXCEPT ![p] =
                    [IdleSlot EXCEPT !.cmd = "scan_repositories", !.pc = "scan"]]
    /\ calls' = calls + 1
    /\ UNCHANGED <<primary, history, clock, faults, lock>>
    /\ CmdFrame

\* a request arrives: scan_repositories(directory_path, add_mode).  Nothing
\* reads the arguments before the mutex is taken, so they are drawn where
\* the handler first uses them, in ScanReturns.
InvokeScan(p) ==
    /\ TakesSlot(p)
    /\ calls < MaxCalls
    /\ proc' = [proc EXCEPT ![p] =
                    [IdleSlot EXCEPT !.cmd = "scan_repositories", !.pc = "lock"]]
    /\ calls' = calls + 1
    /\ UNCHANGED <<primary, history, clock, faults, lock>>
    /\ CmdFrame

\* a request arrives: get_directory_stats(directory_path)
InvokeStats(p) ==
    /\ TakesSlot(p)
    /\ calls < MaxCalls
    /\ proc' = [proc EXCEPT ![p] =
                    [IdleSlot EXCEPT !.cmd = "get_directory_stats", !.pc = "lock"]]
    /\ calls' = calls + 1
    /\ UNCHANGED <<primary, history, clock, faults, lock>>
    /\ CmdFrame

\* test_cache_service or load_cached_repositories arrives.  They take no
\* lock, and a request has no effect before its first step, so the arrival
\* is part of that step.
CacheCmdArrives(p) ==
    /\ TakesSlot(p)
    /\ calls < MaxCalls
    /\ calls' = calls + 1

\* a lock() that returns whether or not the mutex is held
AcquireLock_NoWait(p) ==
    /\ proc[p].pc = "lock"
    /\ lock' = p
    /\ proc' = [proc EXCEPT ![p].pc = "scan"]
    /\ UNCHANGED <<primary, history, clock, faults, calls>>
    /\ CmdFrame

\* REPO_SERVICE.lock().await returns: the mutex was free
AcquireLock(p) ==
    /\ proc[p].pc = "lock"
    /\ lock = 0
    /\ lock' = p
    /\ proc' = [proc EXCEPT ![p].pc = "scan"]
    /\ UNCHANGED <<primary, history, clock, faults, calls>>
    /\ CmdFrame

\* what scan_directory_with_progress returns for each tree and root the
\* commands are run on
CmdScans ==
    [t \in CmdTrees, root \in CmdRoots |-> scan_directory_with_progress(t, root)]

\* scan_directory_with_progress returns, for the directory_path the
\* request was made with and on the tree as it is then; scan_repositories
\* goes on to its add_mode, get_directory_stats to count
ScanReturns(p) ==
    /\ proc[p].pc = "scan"
    /\ \E root \in CmdRoots, t \in CmdTrees :
          LET repos == CmdScans[t, root]
          IN  IF proc[p].cmd = "scan_repositories"
              THEN \E mode \in AddModes :
                      proc' = [proc EXCEPT ![p].directory_path = root,
                                           ![p].add_mode = mode,
                                           ![p].result = repos,
                                           ![p].pc = "cache",
                                           ![p].ret = Ok(repos)]
              ELSE proc' = [proc EXCEPT ![p].directory_path = root,
                                        ![p].result = repos,
                                        ![p].pc = "unlock",
                                        ![p].ret = Ok(directory_stats(repos))]
    /\ UNCHANGED <<primary, history, clock, faults, lock, calls>>
    /\ CmdFrame

\* scan_repositories: CacheService::new fails and the cache is left alone
ScanCacheNewFails(p) ==
    /\ proc[p].cmd = "scan_repositories"
    /\ proc[p].pc = "cache"
    /\ proc' = [proc EXCEPT ![p].pc = "unlock"]
    /\ UNCHANGED <<primary, history, clock, faults, lock, calls>>
    /\ CmdFrame

\* a scan_repositories that hands the merged list to its caller
ScanBuildRecord_returns_merged(p) ==
    /\ proc[p].cmd = "scan_repositories"
    /\ proc[p].pc = "cache"
    /\ LET loaded == load_cache(primary)
           merging == is_add_mode(proc[p].add_mode) /\ loaded.tag = "Ok" /\ loaded.some
           now == clock + 1
       IN  /\ clock' = now
           /\ IF merging
              THEN \E order \in Orders(DOMAIN loaded.value.repositories) :
                      LET existing_repos == extract_repositories(loaded.value, order)
                          all_scanned_paths ==
                              <<proc[p].directory_path>> \o loaded.value.scanned_paths
                          final_repos == merge_repositories(existing_repos, proc[p].result)
                      IN  proc' = [proc EXCEPT
                                     ![p].existing = loaded.value,
                                     ![p].cache_data = create_cache_data(
                                         final_repos, all_scanned_paths, EmptyMap, now),
                                     ![p].pc = "backup",
                                     ![p].ret = Ok(final_repos)]
              ELSE proc' = [proc EXCEPT
                              ![p].cache_data = create_cache_data(
                                  proc[p].result, <<proc[p].directory_path>>, EmptyMap, now),
                              ![p].pc = "backup"]
    /\ UNCHANGED <<primary, history, faults, lock, calls>>
    /\ CmdFrame

\* scan_repositories from CacheService::new to create_cache_data: in add
\* mode the existing record, if load_cache gives one, is merged in
ScanBuildRecord(p) ==
    /\ proc[p].cmd = "scan_repositories"
    /\ proc[p].pc = "cache"
    /\ LET loaded == load_cache(primary)
           merging == is_add_mode(proc[p].add_mode) /\ loaded.tag = "Ok" /\ loaded.some
           now == clock + 1
       IN  /\ clock' = now
           /\ IF merging
              THEN \E order \in Orders(DOMAIN loaded.value.repositories) :
                      LET existing_repos == extract_repositories(loaded.value, order)
                          all_scanned_paths ==
                              <<proc[p].directory_path>> \o loaded.value.scanned_paths
                          final_repos == merge_repositories(existing_repos, proc[p].result)
                      IN  proc' = [proc EXCEPT
                                     ![p].existing = loaded.value,
                                     ![p].cache_data = create_cache_data(
                                         final_repos, all_scanned_paths, EmptyMap, now),
                                     ![p].pc = "backup"]
              ELSE proc' = [proc EXCEPT
                              ![p].cache_data = create_cache_data(
                                  proc[p].result, <<proc[p].directory_path>>, EmptyMap, now),
                              ![p].pc = "backup"]
    /\ UNCHANGED <<primary, history, faults, lock, calls>>
    /\ CmdFrame

\* a scan_repositories that hands a failed save to its caller
AfterSave_propagates(p, r) ==
    IF proc[p].cmd = "scan_repositories"
    THEN [proc EXCEPT ![p].save_result = r, ![p].pc = "unlock",
                      ![p].ret = IF r = "Ok" THEN @ ELSE Err("Failed to save cache")]
    ELSE [proc EXCEPT ![p] =
             Returning(proc[p].cmd,
                       IF r = "Ok" THEN Ok("created") ELSE Err("Save test failed"))]

\* where a request goes once its save_cache has returned r
AfterSave(p, r) ==
    IF proc[p].cmd = "scan_repositories"
    THEN [proc EXCEPT ![p].save_result = r, ![p].pc = "unlock"]
    ELSE [proc EXCEPT ![p] =
             Returning(proc[p].cmd,
                       IF r = "Ok" THEN Ok("created") ELSE Err("Save test failed"))]

\* save_cache, first step: no primary file, so no backup
SaveNoBackup(p) ==
    /\ proc[p].pc = "backup"
    /\ primary = NoFile
    /\ proc' = [proc EXCEPT ![p].pc = "write"]
    /\ UNCHANGED <<primary, history, clock, faults, lock, calls>>
    /\ CmdFrame

\* save_cache, first step: the primary file is copied into the history
SaveBackup(p) ==
    /\ proc[p].pc = "backup"
    /\ primary # NoFile
    /\ history' = create_historical_backup(primary, history, clock)
    /\ proc' = [proc EXCEPT ![p].pc = "write"]
    /\ UNCHANGED <<primary, clock, faults, lock, calls>>
    /\ CmdFrame

\* save_cache, first step: the copy fails and save_cache returns the error
SaveBackupError(p) ==
    /\ proc[p].pc = "backup"
    /\ primary # NoFile
    /\ proc' = AfterSave(p, "Err")
    /\ UNCHANGED <<primary, history, clock, faults, lock, calls>>
    /\ CmdFrame

\* save_cache, second step: fs::write of the serialized record
SaveWrite(p) ==
    /\ proc[p].pc = "write"
    /\ primary' = to_string_pretty(proc[p].cache_data)
    /\ proc' = [proc EXCEPT ![p].pc = "cleanup"]
    /\ UNCHANGED <<history, clock, faults, lock, calls>>
    /\ CmdFrame

\* save_cache, second step: fs::write fails, before or after truncating
SaveWriteError(p) ==
    /\ proc[p].pc = "write"
    /\ primary' \in {primary, Corrupt}
    /\ proc' = AfterSave(p, "Err")
    /\ UNCHANGED <<history, clock, faults, lock, calls>>
    /\ CmdFrame

\* save_cache, last step: cleanup_historical_files; a failed removal is
\* logged only
SaveCleanup(p) ==
    /\ proc[p].pc = "cleanup"
    /\ \E not_removed \in SUBSET FilesBeyondLimit(history) :
          /\ faults + Cardinality(not_removed) <= MaxFaults
          /\ faults' = faults + Cardinality(not_removed)
          /\ history' = history \ (FilesBeyondLimit(history) \ not_removed)
    /\ proc' = AfterSave(p, "Ok")
    /\ UNCHANGED <<primary, clock, lock, calls>>
    /\ CmdFrame

\* save_cache, last step: the history directory cannot be read
SaveCleanupError(p) ==
    /\ proc[p].pc = "cleanup"
    /\ proc' = AfterSave(p, "Err")
    /\ UNCHANGED <<primary, history, clock, faults, lock, calls>>
    /\ CmdFrame

\* a return that keeps the mutex when the save has failed
ReturnUnlock_keeps_lock_on_failed_save(p) ==
    /\ proc[p].pc = "unlock"
    /\ lock' = IF proc[p].save_result = "Err" THEN lock ELSE 0
    /\ proc' = [proc EXCEPT ![p] = IdleSlot]
    /\ UNCHANGED <<primary, history, clock, faults, calls>>
    /\ CmdFrame

\* scan_repositories or get_directory_stats returns: the guard is dropped
ReturnUnlock(p) ==
    /\ proc[p].pc = "unlock"
    /\ lock' = 0
    /\ proc' = [proc EXCEPT ![p] = IdleSlot]
    /\ UNCHANGED <<primary, history, clock, faults, calls>>
    /\ CmdFrame

\* test_cache_service or load_cached_repositories returns
Return(p) ==
    /\ proc[p].pc = "return"
    /\ proc' = [proc EXCEPT ![p] = IdleSlot]
    /\ UNCHANGED <<primary, history, clock, faults, lock, calls>>
    /\ CmdFrame

\* test_cache_service or load_cached_repositories: CacheService::new, or
\* get_cache_stats in the former, fails
CacheCmdSetupFails(p) ==
    /\ \E c \in {"test_cache_service", "load_cached_repositories"} :
          /\ CacheCmdArrives(p)
          /\ proc' = [proc EXCEPT ![p] =
                          Returning(c, Err("Cache service creation or stats failed"))]
    /\ UNCHANGED <<primary, history, clock, faults, lock>>
    /\ CmdFrame

\* load_cached_repositories: load_cache and what is made of its result
LoadCachedRepositories(p) ==
    /\ CacheCmdArrives(p)
    /\ LET loaded == load_cache(primary)
           c == "load_cached_repositories"
       IN  IF loaded.tag = "Err"
           THEN proc' = [proc EXCEPT ![p] = Returning(c, Err("Failed to load cache"))]
           ELSE IF ~loaded.some
           THEN proc' = [proc EXCEPT ![p] = Returning(c, Ok(NoneOpt))]
           ELSE \E order \in Orders(DOMAIN loaded.value.repositories) :
                   proc' = [proc EXCEPT ![p] =
                               Returning(c, Ok(Some(extract_repositories(loaded.value, order))))]
    /\ UNCHANGED <<primary, history, clock, faults, lock>>
    /\ CmdFrame

\* test_cache_service: load_cache; with no record it builds an empty one
\* and goes on to save it
TestCacheService(p) ==
    /\ CacheCmdArrives(p)
    /\ LET loaded == load_cache(primary)
           c == "test_cache_service"
       IN  IF loaded.tag = "Err"
           THEN /\ proc' = [proc EXCEPT ![p] = Returning(c, Err("Cache load failed"))]
                /\ clock' = clock
           ELSE IF loaded.some
           THEN /\ proc' = [proc EXCEPT ![p] = Returning(c, Ok("found"))]
                /\ clock' = clock
           ELSE /\ clock' = clock + 1
                /\ proc' = [proc EXCEPT ![p] =
                                [IdleSlot EXCEPT
                                    !.cmd = c,
                                    !.cache_data =
                                        create_cache_data(<<>>, <<>>, EmptyMap, clock + 1),
                                    !.pc = "backup"]]
    /\ UNCHANGED <<primary, history, faults, lock>>
    /\ CmdFrame

NextCmd ==
    \E p \in Procs :
        \/ InvokeScan(p)
        \/ InvokeStats(p)
        \/ AcquireLock(p)
        \/ ScanReturns(p)
        \/ ScanCacheNewFails(p)
        \/ ScanBuildRecord(p)
        \/ SaveNoBackup(p)
        \/ SaveBackup(p)
        \/ SaveBackupError(p)
        \/ SaveWrite(p)
        \/ SaveWriteError(p)
        \/ SaveCleanup(p)
        \/ SaveCleanupError(p)
        \/ ReturnUnlock(p)
        \/ Return(p)
        \/ CacheCmdSetupFails(p)
        \/ LoadCachedRepositories(p)
        \/ TestCacheService(p)

SpecCmd == InitCmd /\ [][NextCmd]_vars

\* The commands that take the mutex, under the scheduling the runtime
\* gives them.  Every call a request makes returns, so a request that
\* holds the mutex and can take its next step takes it; and the tokio mutex hands the lock to its waiters first come first
\* served, so a request waiting in lock().await is not passed over for
\* ever when the mutex is released again and again.
LockedStep(p) ==
    \/ ScanReturns(p)
    \/ ScanCacheNewFails(p)
    \/ ScanBuildRecord(p)
    \/ SaveNoBackup(p)
    \/ SaveBackup(p)
    \/ SaveBackupError(p)
    \/ SaveWrite(p)
    \/ SaveWriteError(p)
    \/ SaveCleanup(p)
    \/ SaveCleanupError(p)
    \/ ReturnUnlock(p)

FairCmd == \A p \in Procs : WF_vars(LockedStep(p)) /\ SF_vars(AcquireLock(p))

\* the commands that take the mutex, on an empty cache directory
InitLive ==
    /\ InitCmd
    /\ primary = NoFile

NextLive ==
    \E p \in Procs :
        \/ InvokeScan(p)
        \/ InvokeStats(p)
        \/ AcquireLock(p)
        \/ LockedStep(p)

SpecCmdLive == InitLive /\ [][NextLive]_vars /\ FairCmd

(* ------------------------------------------------------------------ *)
(* Properties of the scan                                              *)
(* ------------------------------------------------------------------ *)

IsProperPrefix(p, q) == IsPrefix(p, q) /\ p # q

ResultPaths == {repositories[i].path : i \in 1..Len(repositories)}

\* the step-wise scan returns what the function computes
ScanStepsAgree ==
    scan_pc = "done" => repositories = scan_directory_with_progress(attrs, base_path)

\* C1: boundary exclusivity.  When a scan has returned, no entity of its
\* result lies strictly beneath a directory that is a repository root,
\* whether that root is the scan root or a directory below it.
C1_BoundaryExclusivity ==
    scan_pc = "done" =>
        \A D \in Dirs :
            (is_git_repository(attrs, D) /\ IsPrefix(base_path, D))
                => \A q \in ResultPaths : ~IsProperPrefix(D, q)

\* a finished scan of /work in which /work/a is a repository that was
\* returned and /work/a/x, a project by its line count, was enumerated by
\* the walker beneath it
C1_Witness ==
    /\ scan_pc = "done"
    /\ base_path = p_work
    /\ attrs[p_a].git
    /\ attrs[p_ax] = ProfCode
    /\ p_a \in ResultPaths
    /\ Len(events) >= 2

\* what scan_directory_with_progress hands back once it has returned: both
\* of its return statements are Ok(repositories)
ScanResult == [tag |-> "Ok", value |-> repositories]

\* C12: the scan returns an error if and only if the enumeration cannot be
\* started at the given root, that is when the root does not exist.
C12_ErrorIffCannotStart ==
    scan_pc = "done" => (ScanResult.tag = "Err" <=> base_path \notin Entries)

\* the (path, status, is_git_repo) triples of a result, in its order
Triples(repos) ==
    [i \in 1..Len(repos) |->
        <<repos[i].path, repos[i].status, repos[i].is_git_repo>>]

\* C21: idempotence.  A second scan of the same root over the unchanged
\* tree returns the same (path, status, is_git_repo) triples as the first,
\* in the same order.
C21_Idempotence ==
    (scan_pc = "done" /\ prev_scan # NoCall /\ prev_scan.base = base_path)
        => Triples(repositories) = Triples(prev_scan.result)

\* /work was scanned twice and both scans returned the same two entities
\* or more
C21_Witness ==
    /\ scan_pc = "done"
    /\ prev_scan # NoCall
    /\ prev_scan.base = p_work
    /\ base_path = p_work
    /\ Len(prev_scan.result) >= 2
    /\ Len(events) >= 2

\* C13: root short-circuit.  On a scan root that is a repository no walker
\* is built and no candidate is collected; the root alone is classified
\* and the result is the one entity whose path is the root.
C13_RootShortCircuit ==
    (base_path # None /\ is_git_repository(attrs, base_path)) =>
        /\ scan_pc \in {"analyzing_root", "done"}
        /\ walker = <<>>
        /\ dirs_to_scan = <<>>
        /\ scan_pc = "done" =>
              /\ analyzed = 1
              /\ Len(repositories) = 1
              /\ repositories[1].path = base_path

\* the scan of the repository /work/a has returned; /work/a/x beneath it
\* holds enough code to be listed by a walk
C13_Witness ==
    /\ scan_pc = "done"
    /\ base_path = p_a
    /\ attrs[p_a].git
    /\ attrs[p_ax] = ProfCode
    /\ ResultPaths = {p_a}

\* C14: relevance filter.  After a scan of a root that is not a
\* repository, a candidate is missing from the result exactly when it is
\* not a repository, its entity has fewer than 10 code lines and none of
\* the marker files is in it.
C14_RelevanceFilter ==
    (scan_pc = "done" /\ ~is_git_repository(attrs, base_path)) =>
        \A i \in 1..Len(dirs_to_scan) :
            LET d == dirs_to_scan[i]
                r == analyze_directory(attrs, d)
            IN  (d \notin ResultPaths)
                    <=> (/\ ~attrs[d].git
                         /\ r.code_lines < 10
                         /\ attrs[d].files \cap project_files = {})

\* a finished scan of /work: /work/b is kept for its README.md alone,
\* /work/a/x for its code lines, /work/a/x/y was classified and dropped
C14_Witness ==
    /\ scan_pc = "done"
    /\ base_path = p_work
    /\ attrs[p_b] = ProfMarker
    /\ attrs[p_ax] = ProfCode
    /\ p_b \in ResultPaths
    /\ p_ax \in ResultPaths
    /\ \E i \in 1..Len(dirs_to_scan) : dirs_to_scan[i] = p_axy
    /\ p_axy \notin ResultPaths

\* C15: the returned list is ordered by name: of two adjacent entities
\* the first has the name that is less than or equal to the other's.
C15_SortedByName ==
    scan_pc = "done" =>
        \A i \in 1..(Len(repositories) - 1) :
            StrLeq(repositories[i].name, repositories[i + 1].name)

\* a scan has returned several entities in another order than the one
\* they were classified in
C15_Witness ==
    /\ scan_pc = "done"
    /\ Len(repositories) >= 2
    /\ repositories # ClassifyAll(attrs, dirs_to_scan)

\* C16 as stated: a candidate's callback comes after its classification,
\* so no callback has reported a count above the number of
\* classifications that have finished.
C16_CallbackAfterClassification ==
    \A i \in 1..Len(events) : events[i].count <= analyzed

\* C16, amended: a candidate's callback comes before its classification.
\* Each call of the callback is made while no classification is running
\* and reports one more than the number of classifications finished; the
\* repository scan root is reported as (root, 1, 1) before it is classified.
C16_CallbackBeforeClassification ==
    [][events' # events =>
          /\ Len(events') = Len(events) + 1
          /\ events'[Len(events')].count = analyzed + 1
          /\ analyzed' = analyzed
          /\ Len(events) = analyzed]_vars

\* the second candidate has been reported to the callback with count 2
\* and is being classified; one classification has finished
C16_Witness ==
    /\ scan_pc = "analyzing"
    /\ Len(events) = 2
    /\ events[2].count = 2
    /\ events[2].current_dir = dirs_to_scan[2]
    /\ analyzed = 1

\* the tree of the example: /work/a a clean repository with the remote
\* origin, /work/b with 3 code lines and no marker file, /work/node_modules
ScenarioTree ==
    [d \in Dirs |-> IF d = p_a THEN ProfGitClean
                    ELSE IF d = p_b THEN ProfFew ELSE DefaultProfile]

\* C17: the scan of /work over the tree of the example returns exactly one
\* entity, the one of /work/a, with status Clean and the remotes
\* ["origin: <url>"].
C17_ExampleScenario ==
    (scan_pc = "done" /\ base_path = p_work /\ attrs = ScenarioTree) =>
        /\ Len(repositories) = 1
        /\ repositories[1].path = p_a
        /\ repositories[1].status = "Clean"
        /\ repositories[1].remotes = <<n_origin \o <<":", " ">> \o url_origin>>

\* C18: no two entities of a scan result have the same path.
C18_UniquePaths ==
    scan_pc = "done" =>
        \A i, j \in 1..Len(repositories) :
            i # j => repositories[i].path # repositories[j].path

\* a scan of /work has returned three entities or more
C18_Witness ==
    /\ scan_pc = "done"
    /\ base_path = p_work
    /\ Len(repositories) >= 3

\* C20: status derivation.  For every repository entity: when get_status
\* answers, has_uncommitted_changes is the negation of its is_clean; the
\* status is Dirty exactly when has_uncommitted_changes holds and the
\* staged or the unstaged list is not empty, Untracked exactly when it
\* holds and both lists are empty, Clean exactly when it does not hold.
C20_StatusDerivation ==
    \A i \in 1..Len(repositories) :
        LET r == repositories[i]
            g == get_status(attrs, r.path)
            listed == g.tag = "Ok" /\ (g.value.staged_files \/ g.value.unstaged_files)
        IN  r.is_git_repo =>
                /\ g.tag = "Ok" => (r.has_uncommitted_changes <=> ~g.value.is_clean)
                /\ r.status = "Dirty" <=> (r.has_uncommitted_changes /\ listed)
                /\ r.status = "Untracked" <=> (r.has_uncommitted_changes /\ ~listed)
                /\ r.status = "Clean" <=> ~r.has_uncommitted_changes

\* a scan of /work has returned /work/a, which has only untracked files,
\* as Untracked and /work/b, which has a staged file, as Dirty
C20_Witness ==
    /\ scan_pc = "done"
    /\ attrs[p_a] = ProfGitUntracked
    /\ attrs[p_b] = ProfGitStaged
    /\ \E i, j \in 1..Len(repositories) :
          /\ repositories[i].path = p_a /\ repositories[i].status = "Untracked"
          /\ repositories[j].path = p_b /\ repositories[j].status = "Dirty"

\* the directories whose classification has finished: the callback of a
\* candidate precedes its classification
Classified == {events[i].current_dir : i \in 1..analyzed}

\* C24: a directory whose name should_skip_directory rejects is never
\* classified by a scan, the scan root included.
C24_RejectedNeverClassified ==
    \A d \in Classified : ~should_skip_directory(d)

\* C25: a directory that should_skip_directory rejects is filtered out
\* entirely: neither it nor a directory beneath it is a candidate, is
\* classified or is in the result.
C25_FilteredEntirely ==
    \A q \in Dirs :
        (base_path # None /\ IsPrefix(base_path, q) /\ should_skip_directory(q)) =>
            \A d \in {dirs_to_scan[i] : i \in 1..Len(dirs_to_scan)}
                        \cup Classified \cup ResultPaths :
                ~IsPrefix(q, d)

\* C26: classification failures are not fatal and stay local.  When a
\* scan has returned it has returned Ok, every candidate was announced
\* and classified (scanned_count = total_count), and every classified
\* directory is either dropped by the relevance filter or in the result,
\* where a failed get_status leaves has_uncommitted_changes false and
\* current_branch absent, a failed get_remotes leaves remotes empty and an
\* unreadable modification time leaves last_activity absent.
C26_FailuresLocalized ==
    scan_pc = "done" =>
        /\ ScanResult.tag = "Ok"
        /\ analyzed = Len(events)
        /\ ~is_git_repository(attrs, base_path) =>
               /\ scanned_count = Len(dirs_to_scan)
               /\ analyzed = Len(dirs_to_scan)
        /\ \A d \in Classified :
               \/ /\ ~attrs[d].git
                  /\ IsDropped(attrs, analyze_directory(attrs, d), d)
                  /\ d \notin ResultPaths
               \/ \E i \in 1..Len(repositories) :
                     LET r == repositories[i]
                     IN  /\ r.path = d
                         /\ (attrs[d].git /\ get_status(attrs, d).tag = "Err") =>
                                /\ ~r.has_uncommitted_changes
                                /\ r.current_branch = None
                         /\ (attrs[d].git /\ get_remotes(attrs, d).tag = "Err") =>
                                r.remotes = <<>>
                         /\ get_last_activity(attrs, d) = None => r.last_activity = None

\* a scan of /work has returned: for /work/a, a repository with changes,
\* a branch and a remote, every adapter call failed and its entity shows
\* none of them; /work/b was classified after it and is in the result
C26_Witness ==
    /\ scan_pc = "done"
    /\ base_path = p_work
    /\ attrs[p_a] = ProfGitBroken
    /\ attrs[p_b] = ProfGitDirty
    /\ scanned_count = Len(dirs_to_scan)
    /\ \E i, j \in 1..Len(repositories) :
          /\ repositories[i].path = p_a
          /\ repositories[i].status = "Clean"
          /\ repositories[i].remotes = <<>>
          /\ repositories[i].current_branch = None
          /\ repositories[i].last_activity = None
          /\ repositories[j].path = p_b
          /\ repositories[j].status = "Dirty"

\* C31: the progress sequence.  On a root that is not a repository no
\* event is emitted while the walker is still being read; the k-th event
\* carries the k-th candidate, scanned_count = k and the final number of
\* candidates as total_count; and when the scan has returned there are as
\* many events as candidates, whatever number of entities was kept.  On a
\* repository root the one event is (root, 1, 1).
C31_ProgressSequence ==
    base_path # None =>
        IF is_git_repository(attrs, base_path)
        THEN events = <<[current_dir |-> base_path, count |-> 1, total |-> 1]>>
        ELSE /\ scan_pc = "enumerating" => events = <<>>
             /\ \A k \in 1..Len(events) :
                    events[k] = [current_dir |-> dirs_to_scan[k], count |-> k,
                                 total |-> Len(dirs_to_scan)]
             /\ scan_pc = "done" => Len(events) = Len(dirs_to_scan)

\* a scan of /work has returned after four events or more, and it kept
\* fewer entities than it had candidates
C31_Witness ==
    /\ scan_pc = "done"
    /\ base_path = p_work
    /\ ~attrs[p_work].git
    /\ Len(events) >= 4
    /\ Len(repositories) >= 1
    /\ Len(repositories) < Len(events)

\* the candidates of the scan, once the first pass is over
Candidates == {dirs_to_scan[i] : i \in 1..Len(dirs_to_scan)}

\* C32: on a root that is not a repository, the root itself is a candidate
\* unless should_skip_directory rejects its name: it is counted in
\* total_count, classified, and in the result exactly when the relevance
\* filter keeps it.  When the root's name is rejected, the directories in
\* it are still candidates and are classified.
C32_RootIsCandidate ==
    (scan_pc \in {"classifying", "analyzing", "done"}
        /\ base_path \in Dirs /\ ~is_git_repository(attrs, base_path)) =>
        IF ~should_skip_directory(base_path)
        THEN /\ dirs_to_scan # <<>>
             /\ dirs_to_scan[1] = base_path
             /\ scan_pc = "done" =>
                    /\ base_path \in Classified
                    /\ events[1].total = Len(dirs_to_scan)
                    /\ base_path \in ResultPaths
                          <=> ~IsDropped(attrs, analyze_directory(attrs, base_path), base_path)
        ELSE /\ base_path \notin Candidates
             /\ \A d \in Children(base_path) :
                    (~attrs[d].ignored /\ ~should_skip_directory(d)) =>
                        /\ d \in Candidates
                        /\ scan_pc = "done" => d \in Classified

\* a scan of /work has returned /work itself, which holds a README.md,
\* among its entities
C32_Witness ==
    /\ scan_pc = "done"
    /\ base_path = p_work
    /\ attrs[p_work] = ProfMarker
    /\ dirs_to_scan[1] = p_work
    /\ p_work \in ResultPaths
    /\ Len(repositories) >= 2

(* ------------------------------------------------------------------ *)
(* Properties of the cache service                                     *)
(* ------------------------------------------------------------------ *)

OkNone == [tag |-> "Ok", some |-> FALSE]

C8_LoadVersionGate ==
    last_load.op = "load" =>
        /\ primary = NoFile => last_load.result = OkNone
        /\ (primary.kind = "json" /\ primary.version # CACHE_VERSION)
                => last_load.result = OkNone
        /\ (last_load.result.tag = "Ok" /\ last_load.result.some)
                => (primary.kind = "json" /\ primary.version = CACHE_VERSION)

\* load_cache was called on a document carrying another version
C8_Witness ==
    /\ last_load.op = "load"
    /\ primary.kind = "json"
    /\ primary.version # CACHE_VERSION

\* C9: load_cache on corrupt or unreadable content gives what it gives
\* when the file is absent, and no error.
C9_CorruptIsNoCache ==
    (last_load.op = "load" /\ primary \in {Corrupt, Unreadable})
        => last_load.result = load_cache(NoFile)

\* C10: when the backup copy fails during save_cache, the new record is
\* still written to the primary file and the call does not return an error.
C10_BackupFailureNotFatal ==
    (last_save.op = "save" /\ last_save.failed = "backup")
        => /\ primary = to_string_pretty(last_save.rec)
           /\ last_save.result = "Ok"

\* C22: save_cache is atomic for the primary file.  When it has returned
\* an error the primary file holds what it held before the call, and when
\* it has returned Ok the primary file holds the new record.
C22_SaveAtomic ==
    last_save.op = "save" =>
        /\ last_save.result = "Err" => primary = last_save.before
        /\ last_save.result = "Ok" => primary = to_string_pretty(last_save.rec)

\* the files a pruning removed
Pruned == last_save.pruned_from \ history

\* C29: within one save_cache the steps are backup, overwrite, prune.  A
\* call that gets past its backup step on an existing primary file has put
\* that file's content, as it was before the overwrite, into the history
\* file named after the current second; a call on no primary file adds no
\* history file; and history files are pruned only in a call that has
\* written the new record.
C29_BackupWritePrune ==
    [][saves' = saves + 1 =>
          /\ last_save'.before = primary
          /\ (primary # NoFile /\ last_save'.failed # "backup") =>
                 \E h \in last_save'.pruned_from :
                     /\ h.name = format_seconds(clock')
                     /\ h.content = primary
                     /\ h \notin history
          /\ primary = NoFile =>
                 /\ last_save'.pruned_from = history
                 /\ history' \subseteq history
          /\ (last_save'.pruned_from \ history' # {}) =>
                 primary' = to_string_pretty(last_save'.rec)]_vars

\* the last save copied the record it superseded into the history and
\* then pruned the oldest file, after an earlier save that had no primary
\* file to copy
C29_Witness ==
    /\ last_save.op = "save" /\ last_save.result = "Ok"
    /\ last_save.before # NoFile
    /\ \E h \in history : h.content = last_save.before /\ h.mtime = clock
    /\ Pruned # {}
    /\ primary = to_string_pretty(last_save.rec)

\* C39: every superseded primary record is kept as a snapshot of its own
\* until the cap evicts it.  A save_cache that returns Ok on an existing
\* primary file, its removals done, leaves one history file more than there were, or max_files
\* of them, and every history file that is gone afterwards is one the
\* pruning took: one of the oldest beyond max_files.  Two saves within the
\* same second are no exception.
C39_SnapshotPerSupersededRecord ==
    [][(saves' = saves + 1 /\ last_save'.result = "Ok" /\ primary # NoFile
            /\ last_save'.not_removed = {}) =>
          /\ Cardinality(history')
                = IF Cardinality(history) + 1 <= max_files
                  THEN Cardinality(history) + 1 ELSE max_files
          /\ \A h \in history \ history' :
                Cardinality({g \in history : g.mtime > h.mtime}) >= max_files - 1]_vars

ListSet(l) == {l[i] : i \in 1..Len(l)}

\* the four cases of C5, for cached entries C and fresh checksums F
StaleByCases(C, F) ==
    {p \in DOMAIN C \cap DOMAIN F : C[p].git_head_sha # None /\ C[p].git_head_sha # F[p]}
    \cup {p \in DOMAIN C \cap DOMAIN F : C[p].git_head_sha = None}
    \cup {p \in DOMAIN C : p \notin DOMAIN F}
    \cup {p \in DOMAIN F : p \notin DOMAIN C}

\* C5: staleness totality.  find_stale_repositories returns exactly the
\* paths that are cached with a checksum differing from the fresh one,
\* cached without a checksum, cached but not in the fresh map, or in the
\* fresh map but not cached; and it returns none of them twice.
C5_StalenessTotality ==
    stale_out.op = "returned" =>
        /\ ListSet(stale_out.list)
              = StaleByCases(stale_in.cache_data.repositories, stale_in.current_checksums)
        /\ Len(stale_out.list) = Cardinality(ListSet(stale_out.list))

\* a call in which one cached path changed, one cached path has the fresh
\* checksum, and one fresh path is new
C5_Witness ==
    /\ stale_out.op = "returned"
    /\ DOMAIN stale_in.cache_data.repositories = {p_a, p_b}
    /\ stale_in.cache_data.repositories[p_a].git_head_sha = "sha1"
    /\ stale_in.cache_data.repositories[p_b].git_head_sha = "sha2"
    /\ stale_in.current_checksums = [p \in StalePaths |-> "sha2"]
    /\ ListSet(stale_out.list) = {p_a, p_nmpkg}

(* ------------------------------------------------------------------ *)
(* Properties of the commands                                          *)
(* ------------------------------------------------------------------ *)

Scanning == {p \in Procs : proc[p].pc = "scan"}

\* C2: at most one scan at a time.  Of the scan_repositories and
\* get_directory_stats requests in flight, at most one is inside
\* scan_directory_with_progress, and it is the one holding the mutex.
C2_OneScanAtATime ==
    /\ Cardinality(Scanning) <= 1
    /\ \A p \in Scanning : lock = p

\* a scan_repositories request is scanning while a get_directory_stats
\* request waits for the mutex
C2_Witness ==
    \E p, q \in Procs :
        /\ proc[p].cmd = "scan_repositories" /\ proc[p].pc = "scan"
        /\ proc[q].cmd = "get_directory_stats" /\ proc[q].pc = "lock"

PathsOf(repos) == {repos[i].path : i \in 1..Len(repos)}

\* the requests that are past create_cache_data after merging with an
\* existing record
Merged ==
    {p \in Procs : /\ proc[p].cmd = "scan_repositories"
                   /\ proc[p].pc \in {"backup", "write", "cleanup", "unlock"}
                   /\ proc[p].existing # NoCall}

\* C3: merge dedup.  In add mode, a path that is both in the existing
\* record and in the scan result has one entry in the record handed to
\* save_cache, and that entry's Repository is the existing record's.
C3_MergeDedup ==
    \A p \in Merged :
        /\ proc[p].cache_data.total_repos
              = Cardinality(DOMAIN proc[p].cache_data.repositories)
        /\ \A q \in DOMAIN proc[p].existing.repositories \cap PathsOf(proc[p].result) :
              /\ q \in DOMAIN proc[p].cache_data.repositories
              /\ proc[p].cache_data.repositories[q].repository
                    = proc[p].existing.repositories[q].repository

\* an add-mode scan found /work/a with another status than the existing
\* record has for it, and its merged record has been saved
C3_Witness ==
    \E p \in Merged :
        /\ proc[p].pc = "unlock"
        /\ proc[p].save_result = "Ok"
        /\ primary = to_string_pretty(proc[p].cache_data)
        /\ p_a \in DOMAIN proc[p].existing.repositories
        /\ \E i \in 1..Len(proc[p].result) :
              /\ proc[p].result[i].path = p_a
              /\ proc[p].result[i] # proc[p].existing.repositories[p_a].repository

\* request p is a scan_repositories call with add_mode false or unset
ReplaceMode(p) ==
    /\ proc[p].cmd = "scan_repositories"
    /\ proc[p].add_mode \in {NoneOpt, Some(FALSE)}

\* C4: replace mode.  The record that the save_cache of a replace-mode
\* scan writes to the primary file has as its repository keys exactly the
\* paths of that scan's result, and as scanned_paths exactly the scanned
\* root, whatever the file held before.
C4_ReplaceMode ==
    [][\A p \in Procs :
          (ReplaceMode(p) /\ proc[p].pc = "write" /\ proc'[p].pc = "cleanup")
              => /\ load_cache(primary').tag = "Ok"
                 /\ load_cache(primary').some
                 /\ DOMAIN load_cache(primary').value.repositories = PathsOf(proc[p].result)
                 /\ load_cache(primary').value.scanned_paths = <<proc[p].directory_path>>]_vars

\* a replace-mode scan of /work/node_modules has saved its record over one
\* that held the repositories of /work; the old record is in the history
C4_Witness ==
    \E p \in Procs :
        /\ ReplaceMode(p)
        /\ proc[p].pc = "unlock"
        /\ proc[p].save_result = "Ok"
        /\ proc[p].directory_path = p_nm
        /\ primary = to_string_pretty(proc[p].cache_data)
        /\ \E h \in history :
              /\ h.content.kind = "json"
              /\ h.content.version = CACHE_VERSION
              /\ h.content.scanned_paths = <<p_work>>
              /\ h.content.total_repos > 0

\* the requests inside save_cache, past its first step
InSave == {p \in Procs : proc[p].pc \in {"write", "cleanup"}}

\* request p calls load_cache in this step: load_cached_repositories or
\* test_cache_service past its setup, or an add-mode scan_repositories
LoadsNow(p) ==
    \/ /\ proc[p].cmd = "idle"
       /\ proc'[p].cmd \in {"load_cached_repositories", "test_cache_service"}
       /\ proc'[p].ret # Err("Cache service creation or stats failed")
    \/ /\ proc[p].pc = "cache"
       /\ proc'[p].pc = "backup"
       /\ is_add_mode(proc[p].add_mode)

\* C23: cache save and load are mutually exclusive.  No request calls
\* load_cache while another request is inside save_cache, and no two
\* requests are inside save_cache at once.
C23_SaveLoadExclusive ==
    [][/\ \A p \in Procs : LoadsNow(p) => InSave \ {p} = {}
       /\ Cardinality(InSave') <= 1]_vars

\* C27: after add-mode scans the scanned_paths of the record is the union
\* of the previous record's scanned_paths and the scanned root, and no
\* root is in it twice.
C27_ScannedPathsUnion ==
    \A p \in Merged :
        LET paths == proc[p].cache_data.scanned_paths
        IN  /\ ListSet(paths)
                  = ListSet(proc[p].existing.scanned_paths) \cup {proc[p].directory_path}
            /\ Len(paths) = Cardinality(ListSet(paths))

C30_CachedAtIsAnalysisTime ==
    \A p \in Merged :
        \A q \in DOMAIN proc[p].existing.repositories :
            /\ q \in DOMAIN proc[p].cache_data.repositories
            /\ proc[p].cache_data.repositories[q].cached_at
                  = proc[p].existing.repositories[q].cached_at

\* the paths of S in the order of the tree listing
InTreeOrder(S) == SelectSeq(TreeOrder, LAMBDA q : q \in S)

\* the current checksum maps C33 is checked against
FreshMaps == UNION {[S -> {"sha1"}] : S \in SUBSET StalePaths}

\* record d has no checksum and no recorded head
NoChecksums(d) ==
    /\ d.checksums = EmptyMap
    /\ \A q \in DOMAIN d.repositories : d.repositories[q].git_head_sha = None

C34_ReturnIndependentOfCache ==
    [][\A p \in Procs :
          proc[p].cmd = "scan_repositories" =>
              /\ (proc[p].pc = "scan" /\ proc'[p].pc = "cache") =>
                    \E t \in CmdTrees :
                        proc'[p].ret
                            = Ok(scan_directory_with_progress(t, proc'[p].directory_path))
              /\ proc[p].pc \in {"cache", "backup", "write", "cleanup"} =>
                    proc'[p].ret = proc[p].ret]_vars

\* an add-mode scan has saved a merged record with more entities than
\* the list it is about to return
C34_Witness ==
    \E p \in Merged :
        /\ proc[p].pc = "unlock"
        /\ proc[p].save_result = "Ok"
        /\ proc[p].add_mode = Some(TRUE)
        /\ proc[p].ret.tag = "Ok"
        /\ PathsOf(proc[p].ret.value) # DOMAIN proc[p].cache_data.repositories
        /\ PathsOf(proc[p].ret.value) \subseteq DOMAIN proc[p].cache_data.repositories

\* C35: add mode never shrinks the cache.  In the record an add-mode scan
\* builds after loading an existing record, every key of the existing
\* record is a key, with the Repository value it had, whether or not the
\* scan found the directory and however it classified it.
C35_AddModeNeverShrinks ==
    \A p \in Merged :
        \A q \in DOMAIN proc[p].existing.repositories :
            /\ q \in DOMAIN proc[p].cache_data.repositories
            /\ proc[p].cache_data.repositories[q].repository
                  = proc[p].existing.repositories[q].repository

\* an add-mode scan of /work/node_modules has saved a record that still
\* holds /work/b, which the scan did not find
C35_Witness ==
    \E p \in Merged :
        /\ proc[p].pc = "unlock"
        /\ proc[p].save_result = "Ok"
        /\ proc[p].directory_path = p_nm
        /\ primary = to_string_pretty(proc[p].cache_data)
        /\ p_b \in DOMAIN proc[p].existing.repositories
        /\ p_b \notin PathsOf(proc[p].result)
        /\ p_b \in DOMAIN proc[p].cache_data.repositories

\* the primary file holds no record load_cache would return: there is no
\* file, it cannot be parsed, or it has another version
NoRecord(file) ==
    \/ file \in {NoFile, Unreadable, Corrupt}
    \/ file.kind = "json" /\ file.version # CACHE_VERSION

\* C36: an add-mode scan that gets no record from load_cache has replace
\* semantics.  The record it builds, and the one its save_cache writes to
\* the primary file, hold only the paths of the scan result and only the
\* scanned root: a corrupt or other-version file is overwritten.
C36_AddModeFallsBack ==
    [][\A p \in Procs :
          (proc[p].cmd = "scan_repositories"
                /\ proc[p].pc \in {"cache", "write"} /\ is_add_mode(proc[p].add_mode)) =>
              /\ (proc[p].pc = "cache" /\ proc'[p].pc = "backup" /\ NoRecord(primary)) =>
                    /\ proc'[p].existing = NoCall
                    /\ DOMAIN proc'[p].cache_data.repositories = PathsOf(proc[p].result)
                    /\ proc'[p].cache_data.scanned_paths = <<proc[p].directory_path>>
              /\ (proc[p].pc = "write" /\ proc'[p].pc = "cleanup"
                        /\ proc[p].existing = NoCall) =>
                    /\ load_cache(primary').tag = "Ok"
                    /\ load_cache(primary').some
                    /\ DOMAIN load_cache(primary').value.repositories
                          = PathsOf(proc[p].result)
                    /\ load_cache(primary').value.scanned_paths
                          = <<proc[p].directory_path>>]_vars

\* an add-mode scan of /work/node_modules has saved its record over the
\* document of another release, which is now in the history
C36_Witness ==
    \E p \in Procs :
        /\ proc[p].cmd = "scan_repositories"
        /\ proc[p].add_mode = Some(TRUE)
        /\ proc[p].pc = "unlock"
        /\ proc[p].save_result = "Ok"
        /\ proc[p].existing = NoCall
        /\ proc[p].directory_path = p_nm
        /\ primary = to_string_pretty(proc[p].cache_data)
        /\ \E h \in history : h.content = OldDocument

\* C37: no lost update between scans.  A scan_repositories request holds
\* the mutex from its scan to its return, so when an add-mode scan writes
\* its record, every repository of the record the file held just before
\* is in the record written, with the repositories of the scan itself.
C37_NoLostUpdate ==
    [][\A p \in Procs :
          proc[p].cmd = "scan_repositories" =>
              /\ proc[p].pc \in {"scan", "cache", "backup", "write", "cleanup", "unlock"}
                    => lock = p
              /\ (proc[p].pc = "write" /\ proc'[p].pc = "cleanup"
                        /\ is_add_mode(proc[p].add_mode)) =>
                    LET before == load_cache(primary)
                        after == load_cache(primary')
                    IN  /\ after.tag = "Ok" /\ after.some
                        /\ PathsOf(proc[p].result) \subseteq DOMAIN after.value.repositories
                        /\ (before.tag = "Ok" /\ before.some) =>
                              DOMAIN before.value.repositories
                                  \subseteq DOMAIN after.value.repositories]_vars

\* the second of two scans, made in add mode on another root while the
\* first was running, has saved a record that holds what both found
C37_Witness ==
    \E p \in Merged :
        /\ p = 2
        /\ calls = 2
        /\ proc[p].add_mode = Some(TRUE)
        /\ proc[p].pc = "unlock"
        /\ proc[p].save_result = "Ok"
        /\ primary = to_string_pretty(proc[p].cache_data)
        /\ proc[p].cache_data.scanned_paths
              = <<proc[p].directory_path>> \o proc[p].existing.scanned_paths
        /\ Len(proc[p].existing.scanned_paths) = 1
        /\ proc[p].existing.scanned_paths[1] # proc[p].directory_path
        /\ ~(DOMAIN proc[p].existing.repositories \subseteq PathsOf(proc[p].result))
        /\ ~(PathsOf(proc[p].result) \subseteq DOMAIN proc[p].existing.repositories)

\* the requests that hold or wait for the mutex
Locking == {"scan_repositories", "get_directory_stats"}

\* C38: the mutex is released on every exit path, so a waiting request
\* gets it.  The mutex is held only by a scan_repositories or
\* get_directory_stats request between its lock() and its return; and,
\* every call returning, a request that waits for the mutex comes to hold
\* it, and a request that holds it returns, however its scan, its cache
\* service or its save ended.
C38_LockReleasedAndAcquired ==
    /\ [](\A p \in Procs :
            lock = p <=> (proc[p].cmd \in Locking /\ proc[p].pc \notin {"idle", "lock"}))
    /\ \A p \in Procs : (proc[p].pc = "lock") ~> (lock = p)
    /\ \A p \in Procs : (lock = p) ~> (lock # p /\ proc[p].cmd = "idle")

\* the first request has returned after its write to the primary file
\* failed, and the second, which arrived while the first was running, has
\* the mutex and is scanning
C38_Witness ==
    /\ calls = 2
    /\ proc[1].cmd = "idle"
    /\ proc[2].cmd \in Locking
    /\ proc[2].pc = "scan"
    /\ lock = 2
    /\ primary = Corrupt

\* C11: cache failures are not fatal to a scan.  A scan_repositories
\* request that is about to return, whether CacheService::new failed, the
\* existing record could not be loaded or save_cache returned an error,
\* returns Ok with the result of its scan.
C11_CacheFailuresNonFatal ==
    \A p \in Procs :
        (proc[p].cmd = "scan_repositories" /\ proc[p].pc = "unlock")
            => proc[p].ret = Ok(proc[p].result)

\* an add-mode scan found repositories, could not load the corrupt primary
\* file, saw its save_cache fail and is returning Ok with what it found
C11_Witness ==
    \E p \in Procs :
        /\ proc[p].cmd = "scan_repositories"
        /\ proc[p].pc = "unlock"
        /\ proc[p].add_mode = Some(TRUE)
        /\ proc[p].existing = NoCall
        /\ primary = Corrupt
        /\ proc[p].save_result = "Err"
        /\ Len(proc[p].result) > 0
        /\ proc[p].ret = Ok(proc[p].result)

\* the entities of a file of the cache directory, if it parses
StoredEntities(content) ==
    IF from_str(content).tag = "Ok"
    THEN {from_str(content).value.repositories[q].repository :
              q \in DOMAIN from_str(content).value.repositories}
    ELSE {}

\* every entity a scan has returned or a record holds, in memory or in the
\* primary file or in the history
AllEntities ==
    UNION {{proc[p].result[i] : i \in 1..Len(proc[p].result)} : p \in Procs}
    \cup UNION {IF proc[p].cache_data = NoCall THEN {}
                ELSE {proc[p].cache_data.repositories[q].repository :
                          q \in DOMAIN proc[p].cache_data.repositories} : p \in Procs}
    \cup (IF primary = NoFile THEN {} ELSE StoredEntities(primary))
    \cup UNION {StoredEntities(h.content) : h \in history}

\* C19: for every entity produced by classification and every entity of
\* a persisted record, after scans in either mode, the status is NoGit
\* exactly when is_git_repo is false.
C19_NoGitIffNotRepo ==
    \A r \in AllEntities : r.status = "NoGit" <=> ~r.is_git_repo

\* the primary file holds a record merged by an add-mode scan over two
\* roots, with a repository and a directory that is not one
C19_Witness ==
    /\ primary # NoFile
    /\ from_str(primary).tag = "Ok"
    /\ Len(from_str(primary).value.scanned_paths) >= 2
    /\ \E r1, r2 \in StoredEntities(primary) :
          /\ r1.is_git_repo /\ r1.status # "NoGit"
          /\ ~r2.is_git_repo /\ r2.status = "NoGit"

====
